---- MODULE Spec2Model ----
(***************************************************************************)
(* Model of the awgur GUI core: the ribbon constraint solver               *)
(* (adjust_cells), the point-in-box test, and event routing through the    *)
(* Ribbon and LayerStack containers.                                       *)
(*                                                                         *)
(* f32 values are modelled as exact rationals <<n, d>> (d > 0, lowest      *)
(* terms); Vector2 is a record [X, Y] of such values.  Option<T> is the    *)
(* empty tuple (None) or a one-element tuple (Some).                       *)
(***************************************************************************)
EXTENDS Integers, Sequences, FiniteSets, TLC

\* ------------------------------------------------------------------ bounds
MaxCoord == 2
MaxLimits == 3
MaxCells == 2
MaxLayers == 2
MaxStreams == 1
MaxVisuals == 2
MaxPlugs == 3
MaxSlotStreams == 2
MaxEvents == 3
MaxCalls == 2
MaxButtonCalls == 3
MaxRootCalls == 2
MaxRootEvents == 2

\* -------------------------------------------------------------- arithmetic
Abs(a) == IF a < 0 THEN -a ELSE a

RECURSIVE GCD(_, _)
GCD(a, b) == IF b = 0 THEN a ELSE GCD(b, a % b)

\* the rational n/d in lowest terms with a positive denominator
Frac(n, d) ==
    LET s == IF d < 0 THEN -1 ELSE 1
        g == GCD(Abs(n), Abs(d))
    IN  <<(s * n) \div g, (s * d) \div g>>

F(n) == <<n, 1>>
FAdd(a, b) == Frac(a[1] * b[2] + b[1] * a[2], a[2] * b[2])
FSub(a, b) == Frac(a[1] * b[2] - b[1] * a[2], a[2] * b[2])
FMul(a, b) == Frac(a[1] * b[1], a[2] * b[2])
FDiv(a, b) == Frac(a[1] * b[2], a[2] * b[1])
FLe(a, b) == a[1] * b[2] <= b[1] * a[2]
FLt(a, b) == a[1] * b[2] < b[1] * a[2]

\* the sum of the first n elements of s
RECURSIVE FSumTo(_, _)
FSumTo(s, n) == IF n = 0 THEN F(0) ELSE FAdd(FSumTo(s, n - 1), s[n])

FSum(s) == FSumTo(s, Len(s))

Vector2(x, y) == [X |-> x, Y |-> y]
V(x, y) == Vector2(F(x), F(y))
VMul(a, b) == Vector2(FMul(a.X, b.X), FMul(a.Y, b.Y))

None == <<>>
Some(v) == <<v>>
IsSome(o) == o # <<>>
Unwrap(o) == o[1]

\* ---------------------------------------------------------------- state
VARIABLES
    \* is_point_in_box under test
    point, offset, size, in_box,
    \* adjust_cells under test: the inputs, and the locals of its loop
    limits, extent, lock, result, sum_ratio, target, passes, pc,
    \* the container under test
    container,          \* "Ribbon" or "LayerStack" (or "none")
    orientation,        \* Core.orientation
    cells,              \* Core.cells, each with its container visual's Offset and Size
    ribbon_size,        \* ribbon_container.Size
    mouse_pos,          \* Core.mouse_pos
    layers,             \* LayerStack Core.layers (panel ids, push order)
    stack_size,         \* LayerStack container.Size
    op,                 \* the last operation called on the container
    last_event,         \* the event of the last on_event call (None otherwise)
    trace,              \* what the last call delivered, in order
    status,             \* "Ok" or "Err": what the last call returned
    subscribers,        \* the number of event streams created on panel_events
    stack_children,     \* the children of the LayerStack's container (top last)
    op_panel,           \* the panel handed to the last push_panel / remove_panel
    fault,              \* the failure the last call met, if any (see Fault)
    received,           \* what the on_event calls counted in call_no delivered
    call_no,            \* the number of on_event calls whose deliveries are kept
    \* the slot under test
    slot_live,          \* whether the owner of the SlotImpl is still there
    slot_container,     \* SlotImpl.container: its Size and Children (top last)
    visual_size,        \* the Size of every visual handed to plug
    plugs,              \* the SlotPlugs returned so far
    slot_op,            \* the last operation called on the slot
    slot_streams,       \* the event streams created on the slot: their event types
    slot_sent,          \* what the last call on the slot put into which stream
    slot_result,        \* "Ok", "Err" or "Panic": how the last call ended
    wait_pc,            \* where the task running Slot::wait_for_destroy is
    \* the event pipe under test
    pipe_open,          \* whether the owner of the source stream is still there
    pipe_source,        \* the events queued in the source stream
    pipe_sent,          \* every event sent to the source stream so far
    pipe_handled,       \* the events handed to the handler, in order
    pipe_pc,            \* the forwarding task: "running", or "Ok" / "Panic" as it ended
    \* two calls in flight on the Ribbon, each from a task of its own
    resize_pc,          \* on_event(Resized): "idle", "awaiting", "laid_out", "done"
    resize_size,        \* the size it was called with
    add_pc,             \* add_panel: "idle", "awaiting", "done"
    add_size,           \* the size it read from the container
    \* the Button under test
    pressed,            \* ButtonImpl.pressed
    button_event,       \* the PanelEvent of the last on_event call on the Button
    button_trace,       \* what that call delivered, in order
    button_status,      \* "Ok" or "Err": what that call returned
    button_sent,        \* every ButtonEvent the Button has sent so far
    button_calls,       \* the number of on_event calls so far
    \* the channel of window events and the receiver task under test
    chan_open,          \* whether a Sender of the channel is still there
    chan_queue,         \* the window events in the channel
    chan_sent,          \* every window event sent on the channel so far
    recv_size,          \* the Size of the container handed to the receiver
    recv_handled,       \* the on_event calls on the panel: the event, and the
                        \* container's Size when the call was made
    recv_results,       \* what those calls returned, as far as they have
    recv_pc,            \* the task: "running", "calling", or "Ok" / "Panic"
    \* the task of spawn_translate_window_events under test
    translate_live,     \* whether the owner of the source Slot is still there
    translate_stream,   \* the events queued in the stream the task holds now
    translate_sent,     \* every window event sent to the Slot so far
    translate_passed,   \* the events passed to translate_window_event, in order
    translate_pc,       \* the task: "awaiting", "handling", or "Ok" / "Panic"
    \* the Root under test
    root_live,          \* whether the owning handle of the Root is still there
    root_panel,         \* RootImpl.panel
    root_children,      \* the children of root_visual (top last)
    root_size,          \* the Size of root_visual
    root_op,            \* the last set_panel call: its panel and what it returned
    root_calls,         \* the number of set_panel calls so far
    root_dispatched,    \* the window events handed to a panel, and to which
    root_pc             \* the receiver task: "running", "calling", or "Ok" / "Panic"

boxVars == <<point, offset, size, in_box>>
solverVars == <<limits, extent, lock, result, sum_ratio, target, passes, pc>>
guiVars == <<container, orientation, cells, ribbon_size, mouse_pos, layers,
             stack_size, op, last_event, trace, status, subscribers,
             stack_children, op_panel, fault, received, call_no>>
orderVars == <<received, call_no>>
slotVars == <<slot_live, slot_container, visual_size, plugs, slot_op,
              slot_streams, slot_sent, slot_result, wait_pc>>
pipeVars == <<pipe_open, pipe_source, pipe_sent, pipe_handled, pipe_pc>>
relayoutVars == <<resize_pc, resize_size, add_pc, add_size>>
buttonVars == <<pressed, button_event, button_trace, button_status, button_sent,
                button_calls>>
chanVars == <<chan_open, chan_queue, chan_sent>>
recvVars == <<recv_size, recv_handled, recv_results, recv_pc>>
translateVars == <<translate_live, translate_stream, translate_sent,
                   translate_passed, translate_pc>>
rootVars == <<root_live, root_panel, root_children, root_size, root_op,
              root_calls, root_dispatched, root_pc>>
appVars == <<buttonVars, chanVars, recvVars, translateVars, rootVars>>
taskVars == <<pipeVars, relayoutVars, appVars>>
vars == <<boxVars, solverVars, guiVars, slotVars, taskVars>>

\* ------------------------------------------------------- is_point_in_box
\* the half-open variant (mutant)
is_point_in_box_half_open(p, o, s) ==
    /\ FLe(o.X, p.X)
    /\ FLt(p.X, FAdd(o.X, s.X))
    /\ FLe(o.X, p.Y)
    /\ FLt(p.Y, FAdd(o.Y, s.Y))

is_point_in_box(p, o, s) ==
    /\ FLe(o.X, p.X)
    /\ FLe(p.X, FAdd(o.X, s.X))
    /\ FLe(o.X, p.Y)
    /\ FLe(p.Y, FAdd(o.Y, s.Y))

is_translated_point_in_box(p, s) == is_point_in_box(p, V(0, 0), s)

\* ------------------------------------------------------------ adjust_cells
CellLimit(ratio, min_size, max_size, content_ratio) ==
    [ratio |-> ratio, min_size |-> min_size, max_size |-> max_size,
     content_ratio |-> content_ratio]

\* a solver that counts the cells instead of summing their ratios (mutant)
SolverStartUnitRatios(ls) ==
    [lock |-> [i \in 1..Len(ls) |-> FALSE],
     result |-> [i \in 1..Len(ls) |-> F(0)],
     sum_ratio |-> F(Len(ls))]

\* the locals of adjust_cells before its loop
SolverStart(ls) ==
    [lock |-> [i \in 1..Len(ls) |-> FALSE],
     result |-> [i \in 1..Len(ls) |-> F(0)],
     sum_ratio |-> FSum([i \in 1..Len(ls) |-> ls[i].ratio])]

\* a solver that never pins a cell at its minimum (mutant)
HitsMinNever(share, limit) == FALSE

\* "if share <= limits[i].min_size"
HitsMin(share, limit) == FLe(share, limit.min_size)

\* "if let Some(max_size) = limits[i].max_size { if share > max_size"
HitsMax(share, limit) ==
    IsSome(limit.max_size) /\ FLt(Unwrap(limit.max_size), share)

\* the body of "for i in 0..limits.len()" for one i; s carries lock, result,
\* sum_ratio, new_target and all_lock
PassCell(s, ls, tgt, i) ==
    IF s.lock[i] THEN s
    ELSE
        LET share0 == FDiv(FMul(tgt, ls[i].ratio), s.sum_ratio)
            hitMin == HitsMin(share0, ls[i])
            share1 == IF hitMin THEN ls[i].min_size ELSE share0
            hitMax == HitsMax(share1, ls[i])
            share == IF hitMax THEN Unwrap(ls[i].max_size) ELSE share1
            locked == hitMin \/ hitMax
        IN  [lock |-> [j \in 1..Len(ls) |-> IF j = i THEN locked ELSE s.lock[j]],
             result |-> [j \in 1..Len(ls) |-> IF j = i THEN share ELSE s.result[j]],
             sum_ratio |-> IF locked THEN FSub(s.sum_ratio, ls[i].ratio) ELSE s.sum_ratio,
             new_target |-> IF locked THEN FSub(s.new_target, share) ELSE s.new_target,
             all_lock |-> s.all_lock /\ locked]

RECURSIVE PassFrom(_, _, _, _)
PassFrom(s, ls, tgt, i) ==
    IF i > Len(ls) THEN s ELSE PassFrom(PassCell(s, ls, tgt, i), ls, tgt, i + 1)

\* one iteration of the loop: the pass over all cells
Pass(s, ls, tgt) ==
    PassFrom([lock |-> s.lock, result |-> s.result, sum_ratio |-> s.sum_ratio,
              new_target |-> tgt, all_lock |-> TRUE], ls, tgt, 1)

\* a loop that stops after its first pass (mutant)
LoopBreaksAfterOnePass(p, tgt) == TRUE

\* a loop that goes on until every cell is locked (mutant)
LoopBreaksWhenAllLocked(p, tgt) == p.all_lock

\* "if all_lock || new_target == target { break; }"
LoopBreaks(p, tgt) == p.all_lock \/ p.new_target = tgt

\* a solver that hands nothing on to the next pass (mutant)
NextTargetZero(p) == F(0)

\* a solver that hands a negative remainder on as it is (mutant)
NextTargetUnclamped(p) == p.new_target

\* "target = if new_target > 0. { new_target } else { 0. }"
NextTarget(p) == IF FLt(F(0), p.new_target) THEN p.new_target ELSE F(0)

RECURSIVE SolverLoop(_, _, _)
\* the end of one iteration, p being the locals after its pass
LoopEnd(p, ls, tgt) ==
    IF LoopBreaks(p, tgt) THEN p.result ELSE SolverLoop(p, ls, NextTarget(p))

SolverLoop(s, ls, tgt) == LoopEnd(Pass(s, ls, tgt), ls, tgt)

adjust_cells(ls, tgt) == SolverLoop(SolverStart(ls), ls, tgt)

\* VisualCollection: the children of a container visual, bottom first
InsertAtTop(children, v) == Append(SelectSeq(children, LAMBDA c : c # v), v)
Remove(children, v) == SelectSeq(children, LAMBDA c : c # v)

\* ------------------------------------------------------------ PanelEvent
Resized(v) == [type |-> "Resized", size |-> v]
CursorMoved(v) == [type |-> "CursorMoved", pos |-> v]
MouseInput(in_slot, state, button) ==
    [type |-> "MouseInput", in_slot |-> in_slot, state |-> state, button |-> button]
Empty == [type |-> "Empty"]

\* one entry of the trace of a call: an on_event call on a child, or a
\* send_event on the container's own stream
ChildEntry(i, panel, e) == [to |-> "child", index |-> i, panel |-> panel, event |-> e]
StreamEntry(e) == [to |-> "stream", index |-> 0, panel |-> 0, event |-> e]

\* what goes wrong during a call: the on_event of child number `at` returns
\* Err (kind "child"), or a call of the backend does (kind "backend": at = 0
\* is the first backend call of the handler, at = k >= 1 the read of child
\* k's container made before child k is called); at = 0 of kind "child" is no
\* failure
Fault(kind, at) == [kind |-> kind, at |-> at]
NoFault == Fault("child", 0)
ChildFaults(n) == {Fault("child", k) : k \in 0..n}
BackendFaults(n) == {Fault("backend", k) : k \in 0..n}

\* "for cell in cells { cell.panel.on_event(..).await?; }": the children
\* called when the child named by bad returns Err
Called(n, bad) == IF bad.kind = "child" /\ bad.at \in 1..n THEN bad.at ELSE n
AllOk(n, bad) == ~(bad.kind = "child" /\ bad.at \in 1..n)

\* the same for a loop that reads the child's container before calling it
\* ("cell.container.Size()?", "cell.translate_point(mouse_pos)?")
ReadFails(n, bad) == bad.kind = "backend" /\ bad.at \in 1..n
CalledReading(n, bad) == IF ReadFails(n, bad) THEN bad.at - 1 ELSE Called(n, bad)
AllOkReading(n, bad) == AllOk(n, bad) /\ ~ReadFails(n, bad)

\* "self.ribbon_container.SetSize(size)?", "self.container.SetSize(size)?"
HeadFails(bad) == bad.kind = "backend" /\ bad.at = 0

\* ----------------------------------------------------------------- Ribbon
Cell_new(panel, limit) ==
    [panel |-> panel, limit |-> limit, offset |-> V(0, 0), size |-> V(0, 0)]

translate_point(cell, p) ==
    Vector2(FSub(p.X, cell.offset.X), FSub(p.Y, cell.offset.Y))

is_translated_point_in_cell(cell, p) == is_translated_point_in_box(p, cell.size)

Cell_resize(cell, o, s) == [cell EXCEPT !.offset = o, !.size = s]

\* a layout that leaves every content at the container's origin (mutant)
resize_cells_at_origin(cs, orient, sz) ==
    [i \in 1..Len(cs) |->
        Cell_resize(cs[i], V(0, 0), VMul(sz, cs[i].limit.content_ratio))]

\* a layout that never advances pos (mutant)
resize_cells_overlapping(cs, orient, sz) ==
    LET hor == orient = "Horizontal"
        sizes == adjust_cells([i \in 1..Len(cs) |-> cs[i].limit],
                              IF hor THEN sz.X ELSE sz.Y)
    IN  [i \in 1..Len(cs) |->
            Cell_resize(cs[i], V(0, 0),
                IF hor THEN Vector2(sizes[i], sz.Y) ELSE Vector2(sz.X, sizes[i]))]

\* the cells after resize_cells(size)
resize_cells(cs, orient, sz) ==
    IF orient = "Stack" THEN
        [i \in 1..Len(cs) |->
            LET content_size == VMul(sz, cs[i].limit.content_ratio)
                content_offset ==
                    Vector2(FDiv(FSub(sz.X, content_size.X), F(2)),
                            FDiv(FSub(sz.Y, content_size.Y), F(2)))
            IN  Cell_resize(cs[i], content_offset, content_size)]
    ELSE
        LET hor == orient = "Horizontal"
            sizes == adjust_cells([i \in 1..Len(cs) |-> cs[i].limit],
                                  IF hor THEN sz.X ELSE sz.Y)
            pos(i) == FSumTo(sizes, i - 1)
        IN  [i \in 1..Len(cs) |->
                Cell_resize(cs[i],
                    IF hor THEN Vector2(pos(i), F(0)) ELSE Vector2(F(0), pos(i)),
                    IF hor THEN Vector2(sizes[i], sz.Y) ELSE Vector2(sz.X, sizes[i]))]

\* The translate_* operators take the Ribbon's state st = [orientation, cells,
\* ribbon_size, mouse_pos] and give the state after the call, the trace of
\* the children called and whether the call returned Ok.
Routed(st, tr, ok) ==
    [orientation |-> st.orientation, cells |-> st.cells,
     ribbon_size |-> st.ribbon_size, mouse_pos |-> st.mouse_pos,
     trace |-> tr, ok |-> ok]

translate_panel_event_default(st, event, bad) ==
    LET n == Len(st.cells)
    IN  Routed(st,
               [i \in 1..Called(n, bad) |-> ChildEntry(i, st.cells[i].panel, event)],
               AllOk(n, bad))

\* forwarding the parent's size instead of each cell's own (mutant)
translate_panel_event_resized_parent_size(st, sz, bad) ==
    LET n == Len(st.cells)
        st2 == [st EXCEPT !.ribbon_size = sz,
                          !.cells = resize_cells(st.cells, st.orientation, sz)]
    IN  Routed(st2,
               [i \in 1..Called(n, bad) |->
                    ChildEntry(i, st2.cells[i].panel, Resized(sz))],
               AllOk(n, bad))

translate_panel_event_resized(st, sz, bad) ==
    IF HeadFails(bad) THEN Routed(st, <<>>, FALSE)
    ELSE
        LET n == Len(st.cells)
            st2 == [st EXCEPT !.ribbon_size = sz,
                              !.cells = resize_cells(st.cells, st.orientation, sz)]
        IN  Routed(st2,
                   [i \in 1..CalledReading(n, bad) |->
                        ChildEntry(i, st2.cells[i].panel, Resized(st2.cells[i].size))],
                   AllOkReading(n, bad))

\* forwarding without recording the position (mutant)
translate_slot_event_cursor_moved_unrecorded(st, p, bad) ==
    LET n == Len(st.cells)
    IN  Routed(st,
               [i \in 1..Called(n, bad) |->
                    ChildEntry(i, st.cells[i].panel,
                               CursorMoved(translate_point(st.cells[i], p)))],
               AllOk(n, bad))

translate_slot_event_cursor_moved(st, p, bad) ==
    LET n == Len(st.cells)
        st2 == [st EXCEPT !.mouse_pos = Some(p)]
    IN  Routed(st2,
               [i \in 1..CalledReading(n, bad) |->
                    ChildEntry(i, st2.cells[i].panel,
                               CursorMoved(translate_point(st2.cells[i], p)))],
               AllOkReading(n, bad))

\* a Ribbon that hit-tests against its origin while no position is recorded
\* (mutant)
translate_slot_event_mouse_input_at_origin(st, state, button, bad) ==
    LET n == Len(st.cells)
        at == IF IsSome(st.mouse_pos) THEN Unwrap(st.mouse_pos) ELSE V(0, 0)
        p(i) == translate_point(st.cells[i], at)
    IN  Routed(st,
               [i \in 1..CalledReading(n, bad) |->
                    ChildEntry(i, st.cells[i].panel,
                        MouseInput(is_translated_point_in_cell(st.cells[i], p(i)),
                                   state, button))],
               AllOkReading(n, bad))

translate_slot_event_mouse_input(st, state, button, bad) ==
    IF IsSome(st.mouse_pos) THEN
        LET n == Len(st.cells)
            p(i) == translate_point(st.cells[i], Unwrap(st.mouse_pos))
        IN  Routed(st,
                   [i \in 1..CalledReading(n, bad) |->
                        ChildEntry(i, st.cells[i].panel,
                            MouseInput(is_translated_point_in_cell(st.cells[i], p(i)),
                                       state, button))],
                   AllOkReading(n, bad))
    ELSE Routed(st, <<>>, TRUE)

Ribbon_translate(st, event, bad) ==
    CASE event.type = "Resized" -> translate_panel_event_resized(st, event.size, bad)
      [] event.type = "MouseInput" ->
            translate_slot_event_mouse_input(st, event.state, event.button, bad)
      [] event.type = "CursorMoved" ->
            translate_slot_event_cursor_moved(st, event.pos, bad)
      [] OTHER -> translate_panel_event_default(st, event, bad)

\* send_event before the children are called (mutant)
EmitFirst(r, event) == [r EXCEPT !.trace = <<StreamEntry(event)>> \o @]

\* one delivery of call number `call`, as its recipient observes it
Received(call, entry) ==
    [call |-> call, to |-> entry.to, panel |-> entry.panel, event |-> entry.event]

\* deliveries that overtake the earlier ones (mutant)
Deliver_overtaking(log, tr, call) ==
    [k \in 1..Len(tr) |-> Received(call, tr[k])] \o log

\* "cell.panel.on_event(..).await?" and "send_event(..).await": what a call
\* delivers has reached its recipients when the call returns
Deliver(log, tr, call) ==
    log \o [k \in 1..Len(tr) |-> Received(call, tr[k])]

\* send_event whatever the routing returned (mutant)
EmitAlways(r, event) == [r EXCEPT !.trace = Append(@, StreamEntry(event))]

\* "}?; self.panel_events.send_event(event.clone(), source).await; Ok(())"
Emit(r, event) ==
    IF r.ok THEN [r EXCEPT !.trace = Append(@, StreamEntry(event))] ELSE r

Ribbon_on_event(st, event, bad) == Emit(Ribbon_translate(st, event, bad), event)

\* pushing the cell without the layout that follows (mutant)
Ribbon_add_panel_no_layout(st, panel, limit) ==
    Append(st.cells, Cell_new(panel, limit))

\* the cells after Ribbon::add_panel(panel, limit)
Ribbon_add_panel(st, panel, limit) ==
    resize_cells(Append(st.cells, Cell_new(panel, limit)), st.orientation,
                 st.ribbon_size)

\* "self.panel_events.create_event_stream()": what the new stream is sent when
\* it is created
Ribbon_event_stream(st) == <<>>

\* ------------------------------------------------------------- LayerStack
\* The translate_* operators give the trace of the layers called and whether
\* the call returned Ok.
Forwarded(tr, ok) == [trace |-> tr, ok |-> ok]

translate_event_to_all_layers(ls, event, bad) ==
    Forwarded([i \in 1..Called(Len(ls), bad) |-> ChildEntry(i, ls[i], event)],
              AllOk(Len(ls), bad))

\* "self.layers().await.first_mut()"
translate_event_to_top_layer(ls, event, bad) ==
    IF ls # <<>>
    THEN Forwarded(<<ChildEntry(1, ls[1], event)>>, AllOk(1, bad))
    ELSE Forwarded(<<>>, TRUE)

\* a container whose size is never set (mutant)
LayerStack_size_kept(sz, event, bad) == sz

\* the container's size after translate_event
LayerStack_size(sz, event, bad) ==
    IF event.type = "Resized" /\ ~HeadFails(bad) THEN event.size ELSE sz

\* every event to the top layer only (mutant)
LayerStack_translate_event_top_only(ls, event, bad) ==
    translate_event_to_top_layer(ls, event, bad)

LayerStack_translate_event(ls, event, bad) ==
    CASE event.type = "Resized" ->
            IF HeadFails(bad) THEN Forwarded(<<>>, FALSE)
            ELSE translate_event_to_all_layers(ls, event, bad)
      [] event.type = "MouseInput" -> translate_event_to_top_layer(ls, event, bad)
      [] OTHER -> translate_event_to_all_layers(ls, event, bad)

LayerStack_on_event(ls, event, bad) ==
    Emit(LayerStack_translate_event(ls, event, bad), event)

\* Panel::attach and Panel::detach on the children of the parent's container
Panel_attach(children, panel) == InsertAtTop(children, panel)
Panel_detach(children, panel) == Remove(children, panel)

\* what push_panel / remove_panel leave: the layers, the children of the
\* container and whether the call returned Ok
Stacked(ls, children, ok) == [layers |-> ls, children |-> children, ok |-> ok]

\* LayerStack::push_panel; fail: the backend call of attach returns Err
push_panel(ls, children, panel, fail) ==
    IF fail THEN Stacked(ls, children, FALSE)
    ELSE Stacked(Append(ls, panel), Panel_attach(children, panel), TRUE)

\* a remove_panel that takes out the top layer whatever it is asked (mutant)
remove_panel_top(ls, children, panel, fail) ==
    IF ls = <<>> THEN Stacked(ls, children, TRUE)
    ELSE Stacked([j \in 1..(Len(ls) - 1) |-> ls[j]],
                 Panel_detach(children, ls[Len(ls)]), TRUE)

\* LayerStack::remove_panel: "if let Some(index) = v.layers.iter().position(
\* |v| *v == panel) { panel.detach()?; v.layers.remove(index); }"
remove_panel(ls, children, panel, fail) ==
    IF \E i \in 1..Len(ls) : ls[i] = panel
    THEN IF fail THEN Stacked(ls, children, FALSE)
         ELSE LET index == CHOOSE i \in 1..Len(ls) :
                              ls[i] = panel /\ \A j \in 1..(i - 1) : ls[j] # panel
              IN  Stacked([j \in 1..(Len(ls) - 1) |->
                              IF j < index THEN ls[j] ELSE ls[j + 1]],
                          Panel_detach(children, panel), TRUE)
    ELSE Stacked(ls, children, TRUE)

\* ------------------------------------------------------------- Slot, Plug

\* the record of a call on the slot: inner is what the closure run on the
\* SlotImpl gave, "None" when the owner is gone
SlotOp(name, visual, plug, inner) ==
    [name |-> name, visual |-> visual, plug |-> plug, inner |-> inner]

\* a plug that puts the visual under the other children (mutant)
SlotImpl_plug_at_bottom(c, vs, v, fail) ==
    [container |-> [c EXCEPT !.Children = <<v>> \o Remove(@, v)],
     visual_size |-> [w \in DOMAIN vs |-> IF w = v THEN c.Size ELSE vs[w]],
     inner |-> "Ok"]

\* SlotImpl::plug on container c with visual sizes vs; fail names the backend
\* call that returns Err ("none": all succeed)
SlotImpl_plug(c, vs, v, fail) ==
    IF fail \in {"Size", "SetSize"} THEN
        [container |-> c, visual_size |-> vs, inner |-> "Err"]
    ELSE
        LET sized == [w \in DOMAIN vs |-> IF w = v THEN c.Size ELSE vs[w]]
        IN  IF fail = "InsertAtTop"
            THEN [container |-> c, visual_size |-> sized, inner |-> "Err"]
            ELSE [container |-> [c EXCEPT !.Children = InsertAtTop(@, v)],
                  visual_size |-> sized, inner |-> "Ok"]

\* "self.0.write(|v| v.plug(&visual))": None when the owner is gone
Slot_plug(live, c, vs, v, fail) ==
    IF live THEN SlotImpl_plug(c, vs, v, fail)
    ELSE [container |-> c, visual_size |-> vs, inner |-> "None"]

\* "Ok(SlotPlug { slot: self.clone(), plugged_visual: visual })"
SlotPlug(v) == [plugged_visual |-> v, dropped |-> FALSE, removes |-> 0]

\* a drop that leaves the visual where it is (mutant)
SlotPlug_drop_leak(live, c, v) == c

\* a drop that removes the visual without asking whether the slot is there
\* (mutant)
SlotPlug_drop_always(live, c, v) == [c EXCEPT !.Children = Remove(@, v)]

\* "impl Drop for SlotPlug": the container after the drop
SlotPlug_drop(live, c, v) ==
    IF live THEN [c EXCEPT !.Children = Remove(@, v)] ELSE c

\* ------------------------------------------------------ the slot's events
SlotResized(v) == [type |-> "SlotResized", size |-> v]
SlotCursorMoved(p) == [type |-> "SlotCursorMoved", pos |-> p]
SlotMouseInput == [type |-> "SlotMouseInput"]

\* winit's PhysicalSize<u32>, PhysicalPosition<f64> and the WindowEvents
PhysicalSize(w, h) == [width |-> w, height |-> h]
PhysicalPosition(x, y) == [x |-> x, y |-> y]
WindowEvent_Resized(s) == [type |-> "WindowEvent", kind |-> "Resized", size |-> s]
WindowEvent_CursorMoved(p) ==
    [type |-> "WindowEvent", kind |-> "CursorMoved", position |-> p]
WindowEvent_MouseInput(state, button) ==
    [type |-> "WindowEvent", kind |-> "MouseInput", state |-> state, button |-> button]
WindowEvent_Focused(b) == [type |-> "WindowEvent", kind |-> "Focused", focused |-> b]

\* "as u32" of an f32: towards zero, negatives to 0 (the sizes here stay far
\* below u32::MAX, where the cast saturates)
as_u32(f) == IF f[1] <= 0 THEN 0 ELSE f[1] \div f[2]

\* "impl FromVector2<PhysicalSize<u32>> for Vector2" and the IntoVector2 of
\* PhysicalSize<u32> and PhysicalPosition<f64> ("as f32" of these small values
\* is exact)
from_vector2(v) == PhysicalSize(as_u32(v.X), as_u32(v.Y))
PhysicalSize_into_vector2(s) == Vector2(F(s.width), F(s.height))
PhysicalPosition_into_vector2(p) == Vector2(p.x, p.y)

\* one event put into the k-th stream of the slot
Delivery(k, e) == [stream |-> k, event |-> e]

\* Tag::send_event: the event goes to every stream of its type, in the order
\* the streams were created; nothing is sent once the owner is gone
Tag_send_event(live, streams, e) ==
    IF live
    THEN LET all == [k \in 1..Len(streams) |-> Delivery(k, e)]
         IN  SelectSeq(all, LAMBDA d : streams[d.stream] = e.type)
    ELSE <<>>

\* EventStream::new(tag): one more stream, of the given event type
EventStream_new(streams, type) == Append(streams, type)

\* what a call on the slot did: the container, the streams, what was sent,
\* how the call ended and what the closure run on the SlotImpl gave
SlotCall(c, streams, sent, res, inner) ==
    [container |-> c, streams |-> streams, sent |-> sent, result |-> res,
     inner |-> inner]

\* Slot::resize_sync; fail names the backend call that returns Err
Slot_resize_sync(live, c, streams, sz, fail) ==
    IF ~live THEN SlotCall(c, streams, <<>>, "Panic", "None")
    ELSE IF fail = "SetSize" THEN SlotCall(c, streams, <<>>, "Err", "Err")
    ELSE SlotCall([c EXCEPT !.Size = sz], streams,
                  Tag_send_event(live, streams, SlotResized(sz))
                      \o Tag_send_event(live, streams,
                                        WindowEvent_Resized(from_vector2(sz))),
                  "Ok", "Ok")

\* Slot::send_window_event_sync
Slot_send_window_event_sync(live, c, streams, event, fail) ==
    CASE event.kind = "Resized" ->
            Slot_resize_sync(live, c, streams,
                             PhysicalSize_into_vector2(event.size), fail)
      [] event.kind = "CursorMoved" ->
            SlotCall(c, streams,
                     Tag_send_event(live, streams,
                         SlotCursorMoved(PhysicalPosition_into_vector2(event.position)))
                         \o Tag_send_event(live, streams, event),
                     "Ok", IF live THEN "Ok" ELSE "None")
      [] event.kind = "MouseInput" ->
            SlotCall(c, streams,
                     Tag_send_event(live, streams, SlotMouseInput)
                         \o Tag_send_event(live, streams, event),
                     "Ok", IF live THEN "Ok" ELSE "None")
      [] OTHER ->
            SlotCall(c, streams, Tag_send_event(live, streams, event),
                     "Ok", IF live THEN "Ok" ELSE "None")

\* Slot::resend_slot_resized
Slot_resend_slot_resized(live, c, streams, fail) ==
    IF live
    THEN IF fail = "Size" THEN SlotCall(c, streams, <<>>, "Err", "Err")
         ELSE SlotCall(c, streams,
                       Tag_send_event(live, streams, SlotResized(c.Size)),
                       "Ok", "Some")
    ELSE SlotCall(c, streams, <<>>, "Ok", "None")

\* an on_slot_resized that only subscribes (mutant)
Slot_on_slot_resized_silent(live, c, streams, fail) ==
    SlotCall(c, EventStream_new(streams, "SlotResized"), <<>>, "Ok", "None")

\* Slot::on_slot_resized: the stream is created first, then the size is resent
\* and what the resend returned is dropped
Slot_on_slot_resized(live, c, streams, fail) ==
    LET subscribed == EventStream_new(streams, "SlotResized")
        resent == Slot_resend_slot_resized(live, c, subscribed, fail)
    IN  SlotCall(c, subscribed, resent.sent, "Ok", resent.inner)

\* Slot::on_window_event
Slot_on_window_event(live, c, streams) ==
    SlotCall(c, EventStream_new(streams, "WindowEvent"), <<>>, "Ok",
             IF live THEN "Ok" ELSE "None")

\* EventStream::next on a stream with the given items queued: the first item,
\* "Pending" while there is none and the owner lives, None once the owner is
\* gone and the queue is used up
EventStream_next(live, queue) ==
    IF queue # <<>> THEN Some(queue[1])
    ELSE IF live THEN "Pending" ELSE None

\* a wait_for_destroy whose loop goes on when the stream has ended (mutant)
Slot_wait_for_destroy_forever(next) == "awaiting"

\* "while let Some(_) = stream.next().await {}" then Ok(()): where the task
\* is after next() gave `next`
Slot_wait_for_destroy(next) == IF IsSome(next) THEN "awaiting" ELSE "finished"

\* Slot::name of a slot named "slot/"
Slot_name(live) == IF live THEN "slot/" ELSE "(dropped)/"

\* ------------------------------------------------------------ event pipe
\* what one turn of the forwarding task leaves: the events handed over so far
\* and where the task is
Piped(handled, at) == [handled |-> handled, pc |-> at]

\* a pipe that takes the events off the stream without handing them over
\* (mutant)
create_event_pipe_dropping(next, handled, fail) ==
    Piped(handled, IF IsSome(next) THEN "running" ELSE "Ok")

\* create_event_pipe: one turn of "while let Some(event) = source.next().await
\* { handler.on_event(eventref, event.into()).await?; } Ok(())" after next()
\* gave `next`; fail: the handler returns Err
create_event_pipe(next, handled, fail) ==
    IF IsSome(next)
    THEN Piped(Append(handled, Unwrap(next)), IF fail THEN "Err" ELSE "running")
    ELSE Piped(handled, "Ok")

\* async_handle_err: "(future.await).unwrap()", how a task ends whose future
\* gave res
async_handle_err(res) == IF res = "Err" THEN "Panic" ELSE res

\* ------------------------------------------------- window event receiver
\* "impl From<WindowEvent<'static>> for PanelEvent"
PanelEvent_from(source) ==
    CASE source.kind = "Resized" -> Resized(PhysicalSize_into_vector2(source.size))
      [] source.kind = "CursorMoved" ->
            CursorMoved(PhysicalPosition_into_vector2(source.position))
      [] source.kind = "MouseInput" -> MouseInput(TRUE, source.state, source.button)
      [] OTHER -> Empty

\* "rx_event_channel.next().await": the first event in the channel, "Pending"
\* while it is empty and a Sender lives, None once it is empty and every
\* Sender is gone
Receiver_next(open, queue) ==
    IF queue # <<>> THEN Some(queue[1])
    ELSE IF open THEN "Pending" ELSE None

\* one on_event call on the panel and the Size the container had then
PanelCall(e, sz) == [event |-> e, container |-> sz]

\* what the body of the receiver's loop does up to its await: the container's
\* Size, the call made on the panel if one is made, and whether it got there
Dispatched(sz, call, ok) == [size |-> sz, call |-> call, ok |-> ok]

\* a receiver that tells the panel before it resizes the container (mutant)
spawn_window_event_receiver_panel_first(sz, event, fail) ==
    Dispatched(IF PanelEvent_from(event).type = "Resized" /\ ~fail
               THEN PanelEvent_from(event).size ELSE sz,
               Some(PanelCall(PanelEvent_from(event), sz)), TRUE)

\* the body of the loop of spawn_window_event_receiver for one event, up to
\* "panel.on_event(&panel_event, None)"; fail: SetSize returns Err
spawn_window_event_receiver(sz, event, fail) ==
    IF PanelEvent_from(event).type = "Resized"
    THEN IF fail
         THEN Dispatched(sz, None, FALSE)
         ELSE Dispatched(PanelEvent_from(event).size,
                         Some(PanelCall(PanelEvent_from(event),
                                        PanelEvent_from(event).size)), TRUE)
    ELSE Dispatched(sz, Some(PanelCall(PanelEvent_from(event), sz)), TRUE)

\* ------------------------------------------ spawn_translate_window_events
\* the queue of a stream that has just been created: it holds none of the
\* events sent before
EventStream_created == <<>>

\* where the task is and what it holds after one of its steps
Translating(stream, passed, at) == [stream |-> stream, passed |-> passed, pc |-> at]

\* "while let Some(event) = source.on_window_event().next().await": next() of
\* the stream the task holds gave `next`; the event is passed to
\* destination.translate_window_event
Translate_take(stream, passed, next) ==
    IF IsSome(next)
    THEN Translating([k \in 1..(Len(stream) - 1) |-> stream[k + 1]],
                     Append(passed, Unwrap(next)), "handling")
    ELSE Translating(stream, passed, "Ok")

\* translate_window_event has returned res ("Some", "None" or "Err"): on Some
\* the loop goes round, and source.on_window_event() makes a new stream in
\* place of the one held so far
Translate_return(stream, passed, res) ==
    CASE res = "Some" -> Translating(EventStream_created, passed, "awaiting")
      [] res = "None" -> Translating(stream, passed, "Ok")
      [] OTHER -> Translating(stream, passed, "Err")

\* lib.rs unwrap_err: "(future.await).unwrap()"
unwrap_err(res) == IF res = "Err" THEN "Panic" ELSE res

\* ------------------------------------------------------------------- Root
\* RootImpl after a call: the stored panel, the children of root_visual and
\* what the call returned
Rooted(panel, children, res) == [panel |-> panel, children |-> children, result |-> res]

\* "fn new": panel: None, and a root_visual of the given size
RootImpl_new == Rooted(None, <<>>, "Ok")

\* RootImpl::set_panel, a panel's visual being named as the panel; fail names
\* the backend call that returns Err: "Remove" (Children() or Remove of the
\* old panel's visual), "InsertAtTop" (Children() or InsertAtTop of the new
\* one), "none"
RootImpl_set_panel(stored, children, panel, fail) ==
    IF IsSome(stored) /\ fail = "Remove"
    THEN Rooted(None, children, "Err")
    ELSE IF fail = "InsertAtTop"
         THEN Rooted(None, IF IsSome(stored) THEN Remove(children, Unwrap(stored))
                           ELSE children, "Err")
         ELSE Rooted(Some(panel),
                     InsertAtTop(IF IsSome(stored) THEN Remove(children, Unwrap(stored))
                                 ELSE children, panel),
                     "Ok")

\* RootImpl::handle_event: the Size of root_visual after it, and whether it
\* returned Ok; fail: SetSize returns Err
RootImpl_handle_event(sz, event, fail) ==
    IF event.kind = "Resized"
    THEN IF fail THEN [size |-> sz, ok |-> FALSE]
         ELSE [size |-> PhysicalSize_into_vector2(event.size), ok |-> TRUE]
    ELSE [size |-> sz, ok |-> TRUE]

\* one window event handed to a panel
RootDispatch(event, panel) == [event |-> event, panel |-> panel]

\* what one turn of the Root's receiver task leaves
Received_by_root(sz, dispatched, at) == [size |-> sz, dispatched |-> dispatched, pc |-> at]

\* a receiver that keeps dispatching to the panel it knew when the Root's
\* handle is gone (mutant)
Root_receive_without_upgrade(live, stored, sz, dispatched, next, fail) ==
    IF next = None THEN Received_by_root(sz, dispatched, "Ok")
    ELSE IF ~RootImpl_handle_event(sz, Unwrap(next), fail).ok
         THEN Received_by_root(sz, dispatched, "Err")
         ELSE IF IsSome(stored)
              THEN Received_by_root(RootImpl_handle_event(sz, Unwrap(next), fail).size,
                        Append(dispatched, RootDispatch(Unwrap(next), Unwrap(stored))),
                        "calling")
              ELSE Received_by_root(RootImpl_handle_event(sz, Unwrap(next), fail).size,
                        dispatched, "running")

\* one turn of the loop of the task spawned by Root::new, after next() of the
\* channel gave `next`: the loop ends on None and when wroot.upgrade() gives
\* None (live: an owning handle is there); otherwise handle_event, and the
\* stored panel, if there is one, is called
Root_receive(live, stored, sz, dispatched, next, fail) ==
    IF next = None THEN Received_by_root(sz, dispatched, "Ok")
    ELSE IF ~live THEN Received_by_root(sz, dispatched, "Ok")
    ELSE IF ~RootImpl_handle_event(sz, Unwrap(next), fail).ok
         THEN Received_by_root(sz, dispatched, "Err")
         ELSE IF IsSome(stored)
              THEN Received_by_root(RootImpl_handle_event(sz, Unwrap(next), fail).size,
                        Append(dispatched, RootDispatch(Unwrap(next), Unwrap(stored))),
                        "calling")
              ELSE Received_by_root(RootImpl_handle_event(sz, Unwrap(next), fail).size,
                        dispatched, "running")

\* ----------------------------------------------------------------- Button
Press == [type |-> "Press"]
Release(in_slot) == [type |-> "Release", in_slot |-> in_slot]

\* one entry of the trace of a call on the Button: the call on its skin, a
\* ButtonEvent sent, or the PanelEvent sent on
SkinEntry(e) == [to |-> "skin", event |-> e]
ButtonEntry(e) == [to |-> "button_events", event |-> e]
PanelEntry(e) == [to |-> "panel_events", event |-> e]

\* "fn new": pressed: false
ButtonImpl_new == FALSE

\* "pub fn press(&mut self)"
ButtonImpl_press(flag) == TRUE

\* a release that leaves the flag as it is (mutant)
ButtonImpl_release_sticky(flag) == [pressed |-> flag, ret |-> flag]

\* "pub fn release(&mut self) -> bool"
ButtonImpl_release(flag) == [pressed |-> FALSE, ret |-> flag]

\* a Button that takes a press outside its slot (mutant)
Button_on_panel_event_anywhere(flag, event) ==
    IF event.type = "MouseInput" /\ event.button = "Left"
    THEN IF event.state = "Pressed"
         THEN [pressed |-> ButtonImpl_press(flag), sent |-> <<Press>>]
         ELSE [pressed |-> FALSE,
               sent |-> IF flag THEN <<Release(event.in_slot)>> ELSE <<>>]
    ELSE [pressed |-> flag, sent |-> <<>>]

\* Button::on_panel_event: the flag after the call and the ButtonEvents sent
Button_on_panel_event(flag, event) ==
    IF event.type = "MouseInput" /\ event.button = "Left"
    THEN IF event.state = "Pressed"
         THEN IF event.in_slot
              THEN [pressed |-> ButtonImpl_press(flag), sent |-> <<Press>>]
              ELSE [pressed |-> flag, sent |-> <<>>]
         ELSE IF event.state = "Released"
              THEN [pressed |-> ButtonImpl_release(flag).pressed,
                    sent |-> IF ButtonImpl_release(flag).ret
                             THEN <<Release(event.in_slot)>> ELSE <<>>]
              ELSE [pressed |-> flag, sent |-> <<>>]
    ELSE [pressed |-> flag, sent |-> <<>>]

\* "impl EventSink<PanelEvent> for Button": the skin first (skin_ok tells
\* whether its on_event returns Ok), then on_panel_event, then send_event
Button_on_event(flag, event, skin_ok) ==
    IF ~skin_ok
    THEN [pressed |-> flag, trace |-> <<SkinEntry(event)>>, sent |-> <<>>,
          ok |-> FALSE]
    ELSE [pressed |-> Button_on_panel_event(flag, event).pressed,
          trace |-> <<SkinEntry(event)>>
                    \o [k \in 1..Len(Button_on_panel_event(flag, event).sent) |->
                            ButtonEntry(Button_on_panel_event(flag, event).sent[k])]
                    \o <<PanelEntry(event)>>,
          sent |-> Button_on_panel_event(flag, event).sent,
          ok |-> TRUE]

\* -------------------------------------------------------------- inputs
SeqsUpTo(S, n) == UNION {[1..k -> S] : k \in 0..n}

Half == <<1, 2>>

\* coordinates of the points, offsets and sizes is_point_in_box is tried on
Coords == {F(c) : c \in 0..MaxCoord}
Grid == {Vector2(x, y) : x \in Coords, y \in Coords}

\* the limits adjust_cells is tried on
SolverLimits ==
    {CellLimit(F(r), F(m), mx, V(1, 1)) :
        r \in {1, 2}, m \in {0, 5}, mx \in {None, Some(F(2))}}
Extents == {F(0), F(4), F(7), F(10)}

\* three equal cells in a container 300 wide, and the same with a fourth cell
\* that needs 250
Plain == CellLimit(F(1), F(0), None, V(1, 1))
Wide == CellLimit(F(1), F(250), None, V(1, 1))
Examples ==
    {<<<<Plain, Plain, Plain>>, F(300)>>, <<<<Plain, Plain, Plain, Wide>>, F(300)>>}
SolverInputs == (SeqsUpTo(SolverLimits, MaxLimits) \X Extents) \cup Examples

\* the limits, sizes, positions and events the containers are driven with
RibbonLimits ==
    {CellLimit(F(1), F(0), None, V(1, 1)),
     CellLimit(F(2), F(4), Some(F(5)), Vector2(Half, F(1)))}
Orientations == {"Stack", "Horizontal", "Vertical"}
Sizes == {V(6, 4), V(12, 6)}
Points == {V(0, 0), V(3, 2), V(6, 4), V(13, 1)}
InputEvents ==
    {Resized(s) : s \in Sizes}
    \cup {CursorMoved(p) : p \in Points}
    \cup {MouseInput(TRUE, "Pressed", "Left"), MouseInput(FALSE, "Released", "Right")}
    \cup {Empty}
Panels == 1..MaxLayers
Visuals == 1..MaxVisuals
PlugFailures == {"none", "Size", "SetSize", "InsertAtTop"}
SlotSizes == {V(12, 6), Vector2(<<13, 2>>, F(4))}
PipeEvents == {Resized(V(6, 4)), Empty}
WindowEvents ==
    {WindowEvent_Resized(PhysicalSize(6, 4)),
     WindowEvent_CursorMoved(PhysicalPosition(F(3), F(2))),
     WindowEvent_MouseInput("Pressed", "Left"),
     WindowEvent_Focused(TRUE)}

ButtonInputs ==
    {MouseInput(in_slot, state, "Left") :
        in_slot \in BOOLEAN, state \in {"Pressed", "Released"}}
    \cup {MouseInput(TRUE, "Pressed", "Right"), MouseInput(TRUE, "Released", "Right"),
          CursorMoved(V(1, 1)), Resized(V(6, 4)), Empty}

RootEvents == {WindowEvent_Resized(PhysicalSize(6, 4)), WindowEvent_Focused(TRUE)}
RootPanels == {1, 2}
RootFailures == {"none", "Remove", "InsertAtTop"}

\* ------------------------------------------------------------ idle parts
BoxIdle ==
    /\ point = V(0, 0) /\ offset = V(0, 0) /\ size = V(0, 0) /\ in_box = None

SolverIdle ==
    /\ limits = <<>> /\ extent = F(0) /\ lock = <<>> /\ result = <<>>
    /\ sum_ratio = F(0) /\ target = F(0) /\ passes = 0 /\ pc = "idle"

GuiIdle ==
    /\ container = "none" /\ orientation = "Stack" /\ cells = <<>>
    /\ ribbon_size = V(0, 0) /\ mouse_pos = None /\ layers = <<>>
    /\ stack_size = V(0, 0) /\ op = "new" /\ last_event = None
    /\ trace = <<>> /\ status = "Ok" /\ subscribers = 0
    /\ stack_children = <<>> /\ op_panel = 0 /\ fault = NoFault
    /\ received = <<>> /\ call_no = 0

SlotIdle ==
    /\ slot_live = FALSE /\ slot_container = [Size |-> V(0, 0), Children |-> <<>>]
    /\ visual_size = <<>> /\ plugs = <<>> /\ slot_op = SlotOp("none", 0, 0, "None")
    /\ slot_streams = <<>> /\ slot_sent = <<>> /\ slot_result = "Ok"
    /\ wait_pc = "none"

PipeIdle ==
    /\ pipe_open = FALSE /\ pipe_source = <<>> /\ pipe_sent = <<>>
    /\ pipe_handled = <<>> /\ pipe_pc = "none"

RelayoutIdle ==
    /\ resize_pc = "idle" /\ resize_size = V(0, 0)
    /\ add_pc = "idle" /\ add_size = V(0, 0)

ButtonIdle ==
    /\ pressed = FALSE /\ button_event = None /\ button_trace = <<>>
    /\ button_status = "Ok" /\ button_sent = <<>> /\ button_calls = 0

ChanIdle == chan_open = FALSE /\ chan_queue = <<>> /\ chan_sent = <<>>

ReceiverIdle ==
    /\ recv_size = V(0, 0) /\ recv_handled = <<>> /\ recv_results = <<>>
    /\ recv_pc = "none"

TranslateIdle ==
    /\ translate_live = FALSE /\ translate_stream = <<>> /\ translate_sent = <<>>
    /\ translate_passed = <<>> /\ translate_pc = "none"

RootIdle ==
    /\ root_live = FALSE /\ root_panel = None /\ root_children = <<>>
    /\ root_size = V(0, 0) /\ root_op = [panel |-> 0, result |-> "none"]
    /\ root_calls = 0 /\ root_dispatched = <<>> /\ root_pc = "none"

AppIdle == ButtonIdle /\ ChanIdle /\ ReceiverIdle /\ TranslateIdle /\ RootIdle

TaskIdle == PipeIdle /\ RelayoutIdle /\ AppIdle

\* ------------------------------------------- specification: is_point_in_box
BoxInit ==
    /\ point \in Grid /\ offset \in Grid /\ size \in Grid
    /\ in_box = None
    /\ SolverIdle /\ GuiIdle /\ SlotIdle /\ TaskIdle

CallIsPointInBox ==
    /\ in_box = None
    /\ in_box' = Some(is_point_in_box(point, offset, size))
    /\ UNCHANGED <<point, offset, size, solverVars, guiVars, slotVars, taskVars>>

BoxNext == CallIsPointInBox
SpecBox == BoxInit /\ [][BoxNext]_vars

\* ---------------------------------------------- specification: adjust_cells
SolverInit ==
    /\ \E input \in SolverInputs : limits = input[1] /\ extent = input[2]
    /\ lock = SolverStart(limits).lock
    /\ result = SolverStart(limits).result
    /\ sum_ratio = SolverStart(limits).sum_ratio
    /\ target = extent
    /\ passes = 0
    /\ pc = "loop"
    /\ BoxIdle /\ GuiIdle /\ SlotIdle /\ TaskIdle

\* one iteration of the loop of adjust_cells
AdjustPass ==
    /\ pc = "loop"
    /\ LET p == Pass([lock |-> lock, result |-> result, sum_ratio |-> sum_ratio],
                     limits, target)
       IN  /\ lock' = p.lock
           /\ result' = p.result
           /\ sum_ratio' = p.sum_ratio
           /\ IF LoopBreaks(p, target)
              THEN pc' = "done" /\ target' = target
              ELSE pc' = "loop" /\ target' = NextTarget(p)
    /\ passes' = passes + 1
    /\ UNCHANGED <<limits, extent, boxVars, guiVars, slotVars, taskVars>>

SolverNext == AdjustPass
SpecSolver == SolverInit /\ [][SolverNext]_vars

\* ------------------------------------------------ specification: containers
RibbonInit ==
    /\ container = "Ribbon"
    /\ orientation \in Orientations
    /\ \E ls \in SeqsUpTo(RibbonLimits, MaxCells) :
            cells = [i \in 1..Len(ls) |-> Cell_new(i, ls[i])]
    /\ ribbon_size = V(0, 0)
    /\ mouse_pos = None
    /\ layers = <<>> /\ stack_size = V(0, 0) /\ stack_children = <<>>

LayerStackInit ==
    /\ container = "LayerStack"
    /\ layers \in {ls \in SeqsUpTo(Panels, MaxLayers) :
                      \A i, j \in 1..Len(ls) : ls[i] = ls[j] => i = j}
    /\ stack_children = layers
    /\ stack_size = V(0, 0)
    /\ orientation = "Stack" /\ cells = <<>> /\ ribbon_size = V(0, 0)
    /\ mouse_pos = None

Init ==
    /\ RibbonInit \/ LayerStackInit
    /\ op = "new" /\ last_event = None /\ trace = <<>> /\ status = "Ok"
    /\ subscribers = 0 /\ op_panel = 0 /\ fault = NoFault
    /\ received = <<>> /\ call_no = 0
    /\ BoxIdle /\ SolverIdle /\ SlotIdle /\ TaskIdle

RibbonState ==
    [orientation |-> orientation, cells |-> cells, ribbon_size |-> ribbon_size,
     mouse_pos |-> mouse_pos]

\* Ribbon::on_event of any event, meeting any of the given failures
RibbonDispatch(faults) ==
    /\ container = "Ribbon"
    /\ \E event \in InputEvents, bad \in faults :
        \E r \in {Ribbon_on_event(RibbonState, event, bad)} :
            /\ cells' = r.cells
            /\ ribbon_size' = r.ribbon_size
            /\ mouse_pos' = r.mouse_pos
            /\ trace' = r.trace
            /\ status' = IF r.ok THEN "Ok" ELSE "Err"
            /\ last_event' = Some(event)
            /\ fault' = bad
    /\ op' = "on_event"
    /\ UNCHANGED <<container, orientation, layers, stack_size, subscribers,
                   stack_children, op_panel, boxVars, solverVars, slotVars, taskVars>>

RibbonOnEvent ==
    /\ RibbonDispatch(ChildFaults(Len(cells)))
    /\ UNCHANGED orderVars

RibbonOnEventBackend ==
    /\ RibbonDispatch(BackendFaults(Len(cells)))
    /\ UNCHANGED orderVars

RibbonAddPanel ==
    /\ container = "Ribbon"
    /\ Len(cells) < MaxCells
    /\ \E limit \in RibbonLimits :
            cells' = Ribbon_add_panel(RibbonState, Len(cells) + 1, limit)
    /\ op' = "add_panel" /\ last_event' = None /\ trace' = <<>> /\ status' = "Ok"
    /\ fault' = NoFault
    /\ UNCHANGED <<orderVars, container, orientation, ribbon_size, mouse_pos, layers,
                   stack_size, subscribers, stack_children, op_panel,
                   boxVars, solverVars, slotVars, taskVars>>

RibbonEventStream ==
    /\ container = "Ribbon"
    /\ subscribers < MaxStreams
    /\ subscribers' = subscribers + 1
    /\ trace' = Ribbon_event_stream(RibbonState)
    /\ op' = "event_stream" /\ last_event' = None /\ status' = "Ok"
    /\ fault' = NoFault
    /\ UNCHANGED <<orderVars, container, orientation, cells, ribbon_size, mouse_pos, layers,
                   stack_size, stack_children, op_panel, boxVars, solverVars, slotVars, taskVars>>

\* LayerStack::on_event of any event, meeting any of the given failures
LayerStackDispatch(faults) ==
    /\ container = "LayerStack"
    /\ \E event \in InputEvents, bad \in faults :
        \E r \in {LayerStack_on_event(layers, event, bad)} :
            /\ stack_size' = LayerStack_size(stack_size, event, bad)
            /\ trace' = r.trace
            /\ status' = IF r.ok THEN "Ok" ELSE "Err"
            /\ last_event' = Some(event)
            /\ fault' = bad
    /\ op' = "on_event"
    /\ UNCHANGED <<container, orientation, cells, ribbon_size, mouse_pos, layers,
                   subscribers, stack_children, op_panel,
                   boxVars, solverVars, slotVars, taskVars>>

LayerStackOnEvent ==
    /\ LayerStackDispatch(ChildFaults(Len(layers)))
    /\ UNCHANGED orderVars

LayerStackOnEventBackend ==
    /\ LayerStackDispatch(BackendFaults(Len(layers)))
    /\ UNCHANGED orderVars

\* what push_panel / remove_panel of panel, giving r, leave
LayerStackChanged(name, panel, r) ==
    /\ layers' = r.layers
    /\ stack_children' = r.children
    /\ status' = IF r.ok THEN "Ok" ELSE "Err"
    /\ op' = name /\ op_panel' = panel
    /\ last_event' = None /\ trace' = <<>> /\ fault' = NoFault
    /\ UNCHANGED <<orderVars, container, orientation, cells, ribbon_size, mouse_pos,
                   stack_size, subscribers, boxVars, solverVars, slotVars, taskVars>>

LayerStackPushPanel ==
    /\ container = "LayerStack"
    /\ Len(layers) < MaxLayers
    /\ \E panel \in Panels, fail \in BOOLEAN :
        /\ \A i \in 1..Len(layers) : layers[i] # panel
        /\ LayerStackChanged("push_panel", panel,
                             push_panel(layers, stack_children, panel, fail))

LayerStackRemovePanel ==
    /\ container = "LayerStack"
    /\ \E panel \in Panels, fail \in BOOLEAN :
        LayerStackChanged("remove_panel", panel,
                          remove_panel(layers, stack_children, panel, fail))

Next ==
    \/ RibbonOnEvent
    \/ RibbonAddPanel
    \/ LayerStackOnEvent
    \/ LayerStackPushPanel
    \/ LayerStackRemovePanel

Spec == Init /\ [][Next]_vars

\* ------------------------------------- specification: subscribing to a Ribbon
\* a Horizontal Ribbon of at most one cell, its events and its subscribers
SubscribeInit ==
    /\ Init
    /\ container = "Ribbon" /\ orientation = "Horizontal" /\ Len(cells) <= 1

SubscribeNext == RibbonOnEvent \/ RibbonEventStream
SpecSubscribe == SubscribeInit /\ [][SubscribeNext]_vars

\* ------------------------------------ specification: calls that meet failures
\* the containers with at most one cell limit to choose from, their events
\* meeting failures of a child or of the backend
FaultsInit ==
    /\ Init
    /\ container = "Ribbon" => \A i \in 1..Len(cells) : cells[i].limit = Plain

FaultsNext ==
    \/ RibbonOnEvent
    \/ RibbonOnEventBackend
    \/ LayerStackOnEvent
    \/ LayerStackOnEventBackend
SpecFaults == FaultsInit /\ [][FaultsNext]_vars

\* ------------------------------------------- specification: the event pipe
PipeInit ==
    /\ pipe_open = TRUE /\ pipe_source = <<>> /\ pipe_sent = <<>>
    /\ pipe_handled = <<>> /\ pipe_pc = "running"
    /\ RelayoutIdle /\ AppIdle /\ BoxIdle /\ SolverIdle /\ GuiIdle /\ SlotIdle

\* the owner of the source sends an event
PipeSend ==
    /\ pipe_open /\ Len(pipe_sent) < MaxEvents
    /\ \E event \in PipeEvents :
        /\ pipe_source' = Append(pipe_source, event)
        /\ pipe_sent' = Append(pipe_sent, event)
    /\ UNCHANGED <<pipe_open, pipe_handled, pipe_pc, relayoutVars, appVars,
                   boxVars, solverVars, guiVars, slotVars>>

\* the owner of the source goes away
PipeClose ==
    /\ pipe_open
    /\ pipe_open' = FALSE
    /\ UNCHANGED <<pipe_source, pipe_sent, pipe_handled, pipe_pc, relayoutVars, appVars,
                   boxVars, solverVars, guiVars, slotVars>>

\* the task's "source.next().await" returns and the handler is called
PipeStep ==
    /\ pipe_pc = "running"
    /\ EventStream_next(pipe_open, pipe_source) # "Pending"
    /\ \E fail \in BOOLEAN :
        LET r == create_event_pipe(EventStream_next(pipe_open, pipe_source),
                                   pipe_handled, fail)
        IN  /\ pipe_handled' = r.handled
            /\ pipe_pc' = async_handle_err(r.pc)
    /\ pipe_source' = [k \in 1..(Len(pipe_source) - 1) |-> pipe_source[k + 1]]
    /\ UNCHANGED <<pipe_open, pipe_sent, relayoutVars, appVars,
                   boxVars, solverVars, guiVars, slotVars>>

PipeNext == PipeSend \/ PipeClose \/ PipeStep
\* the pool runs a task whose await has returned
SpecPipe == PipeInit /\ [][PipeNext]_vars /\ WF_vars(PipeStep)

\* ------------------------- specification: two calls in flight on a Ribbon
\* on_event(Resized) and add_panel run as two tasks on one Ribbon; a task may
\* be suspended where it awaits the lock of the Core, and only there
ConcurrentInit == Init /\ container = "Ribbon"

\* on_event(Resized(sz)) up to the await of the read lock in resize_cells:
\* "self.ribbon_container.SetSize(size)?"
ResizeStart ==
    /\ container = "Ribbon" /\ resize_pc \in {"idle", "done"}
    /\ \E sz \in Sizes : resize_size' = sz /\ ribbon_size' = sz
    /\ resize_pc' = "awaiting"
    /\ UNCHANGED <<orderVars, container, orientation, cells, mouse_pos, layers, stack_size,
                   op, last_event, trace, status, subscribers, stack_children,
                   op_panel, fault, add_pc, add_size, pipeVars, appVars,
                   boxVars, solverVars, slotVars>>

\* the rest of resize_cells: the cells are read under the lock and laid out
\* for the size the call was given
ResizeLayout ==
    /\ container = "Ribbon" /\ resize_pc = "awaiting"
    /\ cells' = resize_cells(cells, orientation, resize_size)
    /\ resize_pc' = "laid_out"
    /\ UNCHANGED <<orderVars, container, orientation, ribbon_size, mouse_pos, layers,
                   stack_size, op, last_event, trace, status, subscribers,
                   stack_children, op_panel, fault, resize_size, add_pc, add_size,
                   pipeVars, appVars, boxVars, solverVars, slotVars>>

\* the rest of on_event(Resized): the cells are read again, every child is
\* sent the size of its cell and the event goes to the Ribbon's own stream
ResizeDispatch ==
    /\ container = "Ribbon" /\ resize_pc = "laid_out"
    /\ trace' = Append([i \in 1..Len(cells) |->
                            ChildEntry(i, cells[i].panel, Resized(cells[i].size))],
                       StreamEntry(Resized(resize_size)))
    /\ last_event' = Some(Resized(resize_size))
    /\ op' = "on_event" /\ status' = "Ok" /\ fault' = NoFault
    /\ resize_pc' = "done"
    /\ UNCHANGED <<orderVars, container, orientation, cells, ribbon_size, mouse_pos, layers,
                   stack_size, subscribers, stack_children, op_panel,
                   resize_size, add_pc, add_size, pipeVars, appVars,
                   boxVars, solverVars, slotVars>>

\* add_panel up to the await of the read lock in resize_cells: the cell is
\* pushed under the write lock, the container's Size is read and set again
AddStart ==
    /\ container = "Ribbon" /\ add_pc \in {"idle", "done"}
    /\ Len(cells) < MaxCells
    /\ \E limit \in RibbonLimits :
            cells' = Append(cells, Cell_new(Len(cells) + 1, limit))
    /\ add_size' = ribbon_size
    /\ add_pc' = "awaiting"
    /\ UNCHANGED <<orderVars, container, orientation, ribbon_size, mouse_pos, layers,
                   stack_size, op, last_event, trace, status, subscribers,
                   stack_children, op_panel, fault, resize_pc, resize_size,
                   pipeVars, appVars, boxVars, solverVars, slotVars>>

\* the rest of add_panel: the cells are read under the lock and laid out for
\* the size add_panel read
AddLayout ==
    /\ container = "Ribbon" /\ add_pc = "awaiting"
    /\ cells' = resize_cells(cells, orientation, add_size)
    /\ add_pc' = "done"
    /\ op' = "add_panel" /\ last_event' = None /\ trace' = <<>> /\ status' = "Ok"
    /\ fault' = NoFault
    /\ UNCHANGED <<orderVars, container, orientation, ribbon_size, mouse_pos, layers,
                   stack_size, subscribers, stack_children, op_panel,
                   resize_pc, resize_size, add_size, pipeVars, appVars,
                   boxVars, solverVars, slotVars>>

ConcurrentNext ==
    \/ ResizeStart
    \/ ResizeLayout
    \/ ResizeDispatch
    \/ AddStart
    \/ AddLayout
SpecConcurrent == ConcurrentInit /\ [][ConcurrentNext]_vars

\* ------------------------------- specification: one on_event after another
\* on_event calls on a container, each started when the one before has
\* returned, and what their recipients observe
RibbonOnEventInOrder ==
    /\ call_no < MaxCalls
    /\ RibbonDispatch(ChildFaults(Len(cells)))
    /\ call_no' = call_no + 1
    /\ received' = Deliver(received, trace', call_no + 1)

LayerStackOnEventInOrder ==
    /\ call_no < MaxCalls
    /\ LayerStackDispatch(ChildFaults(Len(layers)))
    /\ call_no' = call_no + 1
    /\ received' = Deliver(received, trace', call_no + 1)

OrderInit == FaultsInit /\ (container = "Ribbon" => orientation = "Horizontal")
OrderNext == RibbonOnEventInOrder \/ LayerStackOnEventInOrder
SpecOrder == OrderInit /\ [][OrderNext]_vars

\* ---------------------------------------- specification: the layers alone
LayersInit == Init /\ container = "LayerStack"
LayersNext == LayerStackOnEvent \/ LayerStackPushPanel \/ LayerStackRemovePanel
SpecLayers == LayersInit /\ [][LayersNext]_vars

\* ------------------------------------------------------ specification: Slot
SlotInit ==
    /\ slot_live = TRUE
    /\ \E s \in Sizes : slot_container = [Size |-> s, Children |-> <<>>]
    /\ visual_size = [v \in Visuals |-> V(0, 0)]
    /\ plugs = <<>>
    /\ slot_op = SlotOp("new", 0, 0, "None")
    /\ slot_streams = <<>> /\ slot_sent = <<>> /\ slot_result = "Ok"
    /\ wait_pc = "none"
    /\ BoxIdle /\ SolverIdle /\ GuiIdle /\ TaskIdle

SlotPlugCall ==
    /\ Len(plugs) < MaxPlugs
    /\ \E v \in Visuals, fail \in PlugFailures :
        LET r == Slot_plug(slot_live, slot_container, visual_size, v, fail)
        IN  /\ slot_container' = r.container
            /\ visual_size' = r.visual_size
            /\ plugs' = Append(plugs, SlotPlug(v))
            /\ slot_op' = SlotOp("plug", v, Len(plugs) + 1, r.inner)
    /\ slot_sent' = <<>> /\ slot_result' = "Ok"
    /\ UNCHANGED <<slot_live, slot_streams, wait_pc, boxVars, solverVars, guiVars, taskVars>>

SlotPlugDrop ==
    /\ \E p \in 1..Len(plugs) :
        /\ ~plugs[p].dropped
        /\ slot_container' =
               SlotPlug_drop(slot_live, slot_container, plugs[p].plugged_visual)
        /\ plugs' = [q \in 1..Len(plugs) |->
                        IF q = p
                        THEN [plugged_visual |-> plugs[p].plugged_visual,
                              dropped |-> TRUE,
                              removes |-> IF slot_live THEN 1 ELSE 0]
                        ELSE plugs[q]]
        /\ slot_op' = SlotOp("drop", plugs[p].plugged_visual, p,
                             IF slot_live THEN "Ok" ELSE "None")
    /\ slot_sent' = <<>> /\ slot_result' = "Ok"
    /\ UNCHANGED <<slot_live, slot_streams, wait_pc, visual_size,
                   boxVars, solverVars, guiVars, taskVars>>

\* the owner of the SlotImpl goes away
SlotDestroy ==
    /\ slot_live
    /\ slot_live' = FALSE
    /\ slot_op' = SlotOp("destroy", 0, 0, "None")
    /\ slot_sent' = <<>> /\ slot_result' = "Ok"
    /\ UNCHANGED <<slot_container, slot_streams, wait_pc, visual_size, plugs,
                   boxVars, solverVars, guiVars, taskVars>>

SlotNext == SlotPlugCall \/ SlotPlugDrop \/ SlotDestroy
SpecSlot == SlotInit /\ [][SlotNext]_vars

\* --------------------------------------- specification: the slot's events
\* what a call that is not plug or drop leaves of the slot
SlotCalled(name, r) ==
    /\ slot_container' = r.container
    /\ slot_streams' = r.streams
    /\ slot_sent' = r.sent
    /\ slot_result' = r.result
    /\ slot_op' = SlotOp(name, 0, 0, r.inner)
    /\ UNCHANGED <<slot_live, wait_pc, visual_size, plugs,
                   boxVars, solverVars, guiVars, taskVars>>

SlotResizeSync ==
    /\ \E sz \in SlotSizes, fail \in {"none", "SetSize"} :
        SlotCalled("resize_sync",
                   Slot_resize_sync(slot_live, slot_container, slot_streams, sz, fail))

SlotSendWindowEventSync ==
    /\ \E event \in WindowEvents, fail \in {"none", "SetSize"} :
        SlotCalled("send_window_event_sync",
                   Slot_send_window_event_sync(slot_live, slot_container,
                                               slot_streams, event, fail))

SlotResendSlotResized ==
    /\ \E fail \in {"none", "Size"} :
        SlotCalled("resend_slot_resized",
                   Slot_resend_slot_resized(slot_live, slot_container,
                                            slot_streams, fail))

SlotOnSlotResized ==
    /\ Len(slot_streams) < MaxSlotStreams
    /\ \E fail \in {"none", "Size"} :
        SlotCalled("on_slot_resized",
                   Slot_on_slot_resized(slot_live, slot_container, slot_streams, fail))

SlotOnWindowEvent ==
    /\ Len(slot_streams) < MaxSlotStreams
    /\ SlotCalled("on_window_event",
                  Slot_on_window_event(slot_live, slot_container, slot_streams))

SlotName ==
    /\ SlotCalled("name",
                  SlotCall(slot_container, slot_streams, <<>>, "Ok",
                           Slot_name(slot_live)))

\* Slot::wait_for_destroy is called: the task creates its stream of ()
SlotWaitForDestroy ==
    /\ wait_pc = "none"
    /\ wait_pc' = "awaiting"
    /\ slot_op' = SlotOp("wait_for_destroy", 0, 0, IF slot_live THEN "Ok" ELSE "None")
    /\ slot_sent' = <<>> /\ slot_result' = "Ok"
    /\ UNCHANGED <<slot_live, slot_container, slot_streams, visual_size, plugs,
                   boxVars, solverVars, guiVars, taskVars>>

\* the task's "stream.next().await" returns
SlotWaitNext ==
    /\ wait_pc = "awaiting"
    /\ EventStream_next(slot_live, <<>>) # "Pending"
    /\ wait_pc' = Slot_wait_for_destroy(EventStream_next(slot_live, <<>>))
    /\ UNCHANGED <<slot_live, slot_container, slot_streams, slot_sent, slot_result,
                   slot_op, visual_size, plugs, boxVars, solverVars, guiVars, taskVars>>

SlotEventsNext ==
    \/ SlotDestroy
    \/ SlotWaitForDestroy
    \/ SlotWaitNext
    \/ SlotResizeSync
    \/ SlotSendWindowEventSync
    \/ SlotResendSlotResized
    \/ SlotOnSlotResized
    \/ SlotOnWindowEvent
    \/ SlotName
\* the pool runs a task whose await has returned
SpecSlotEvents == SlotInit /\ [][SlotEventsNext]_vars /\ WF_vars(SlotWaitNext)

\* ------------------------------------------------ specification: the Button
ButtonInit ==
    /\ pressed = ButtonImpl_new
    /\ button_event = None /\ button_trace = <<>> /\ button_status = "Ok"
    /\ button_sent = <<>> /\ button_calls = 0
    /\ BoxIdle /\ SolverIdle /\ GuiIdle /\ SlotIdle /\ PipeIdle /\ RelayoutIdle
    /\ ChanIdle /\ ReceiverIdle /\ TranslateIdle /\ RootIdle

\* one on_event call on the Button, run to its end
ButtonOnEvent ==
    /\ button_calls < MaxButtonCalls
    /\ \E event \in ButtonInputs, skin_ok \in BOOLEAN :
        \E r \in {Button_on_event(pressed, event, skin_ok)} :
            /\ pressed' = r.pressed
            /\ button_event' = Some(event)
            /\ button_trace' = r.trace
            /\ button_status' = IF r.ok THEN "Ok" ELSE "Err"
            /\ button_sent' = button_sent \o r.sent
    /\ button_calls' = button_calls + 1
    /\ UNCHANGED <<boxVars, solverVars, guiVars, slotVars, pipeVars, relayoutVars,
                   chanVars, recvVars, translateVars, rootVars>>

ButtonNext == ButtonOnEvent
SpecButton == ButtonInit /\ [][ButtonNext]_vars

\* ------------------------------- specification: the window event receiver
ChanInit == chan_open = TRUE /\ chan_queue = <<>> /\ chan_sent = <<>>

ReceiverInit ==
    /\ ChanInit
    /\ recv_size \in SlotSizes
    /\ recv_handled = <<>> /\ recv_results = <<>>
    /\ recv_pc = "running"
    /\ BoxIdle /\ SolverIdle /\ GuiIdle /\ SlotIdle /\ PipeIdle /\ RelayoutIdle
    /\ ButtonIdle /\ TranslateIdle /\ RootIdle

\* a holder of the Sender sends a window event
ChanSend ==
    /\ chan_open /\ Len(chan_sent) < MaxEvents
    /\ \E event \in WindowEvents :
        /\ chan_queue' = Append(chan_queue, event)
        /\ chan_sent' = Append(chan_sent, event)
    /\ UNCHANGED chan_open

\* the last Sender is dropped
ChanClose ==
    /\ chan_open
    /\ chan_open' = FALSE
    /\ UNCHANGED <<chan_queue, chan_sent>>

ReceiverSend ==
    /\ ChanSend
    /\ UNCHANGED <<recvVars, buttonVars, boxVars, solverVars, guiVars, slotVars,
                   pipeVars, relayoutVars, translateVars, rootVars>>

ReceiverClose ==
    /\ ChanClose
    /\ UNCHANGED <<recvVars, buttonVars, boxVars, solverVars, guiVars, slotVars,
                   pipeVars, relayoutVars, translateVars, rootVars>>

\* the task's "rx_event_channel.next().await" returns: the loop ends, or the
\* event is converted, the container resized and the panel called
ReceiverTake ==
    /\ recv_pc = "running"
    /\ Receiver_next(chan_open, chan_queue) # "Pending"
    /\ IF Receiver_next(chan_open, chan_queue) = None
       THEN /\ recv_pc' = async_handle_err("Ok")
            /\ UNCHANGED <<recv_size, recv_handled, chan_queue>>
       ELSE /\ \E fail \in BOOLEAN :
                \E r \in {spawn_window_event_receiver(recv_size, chan_queue[1], fail)} :
                    /\ recv_size' = r.size
                    /\ recv_handled' = recv_handled \o r.call
                    /\ recv_pc' = IF r.ok THEN "calling" ELSE async_handle_err("Err")
            /\ chan_queue' = [k \in 1..(Len(chan_queue) - 1) |-> chan_queue[k + 1]]
    /\ UNCHANGED <<recv_results, chan_open, chan_sent, buttonVars, boxVars,
                   solverVars, guiVars, slotVars, pipeVars, relayoutVars, translateVars, rootVars>>

\* the panel's on_event returns: Ok, and the loop goes on, or Err, which the
\* "?" hands to the unwrap of async_handle_err
ReceiverReturn ==
    /\ recv_pc = "calling"
    /\ \E res \in {"Ok", "Err"} :
        /\ recv_results' = Append(recv_results, res)
        /\ recv_pc' = IF res = "Ok" THEN "running" ELSE async_handle_err(res)
    /\ UNCHANGED <<recv_size, recv_handled, chanVars, buttonVars, boxVars,
                   solverVars, guiVars, slotVars, pipeVars, relayoutVars, translateVars, rootVars>>

ReceiverStep == ReceiverTake \/ ReceiverReturn
ReceiverNext == ReceiverSend \/ ReceiverClose \/ ReceiverTake \/ ReceiverReturn
\* the pool runs a task whose await has returned, and a panel's on_event returns
SpecReceiver == ReceiverInit /\ [][ReceiverNext]_vars /\ WF_vars(ReceiverStep)

\* ------------------- specification: the task translating window events
\* the task has been spawned and polled once: it holds its first stream
TranslateInit ==
    /\ translate_live = TRUE
    /\ translate_stream = EventStream_created
    /\ translate_sent = <<>> /\ translate_passed = <<>>
    /\ translate_pc = "awaiting"
    /\ BoxIdle /\ SolverIdle /\ GuiIdle /\ SlotIdle /\ PipeIdle /\ RelayoutIdle
    /\ ButtonIdle /\ ChanIdle /\ ReceiverIdle /\ RootIdle

\* a window event is sent to the live Slot: it goes to the stream the task holds
TranslateSend ==
    /\ translate_live /\ Len(translate_sent) < MaxEvents
    /\ translate_pc \in {"awaiting", "handling"}
    /\ \E event \in WindowEvents :
        /\ translate_stream' =
                translate_stream
                \o [k \in 1..Len(Tag_send_event(translate_live, <<"WindowEvent">>, event)) |->
                        Tag_send_event(translate_live, <<"WindowEvent">>, event)[k].event]
        /\ translate_sent' = Append(translate_sent, event)
    /\ UNCHANGED <<translate_live, translate_passed, translate_pc, buttonVars,
                   chanVars, recvVars, boxVars, solverVars, guiVars, slotVars,
                   pipeVars, relayoutVars, rootVars>>

\* the owner of the Slot is dropped
TranslateDestroy ==
    /\ translate_live
    /\ translate_live' = FALSE
    /\ UNCHANGED <<translate_stream, translate_sent, translate_passed, translate_pc,
                   buttonVars, chanVars, recvVars, boxVars, solverVars, guiVars,
                   slotVars, pipeVars, relayoutVars, rootVars>>

\* next() of the task's stream returns
TranslateTake ==
    /\ translate_pc = "awaiting"
    /\ EventStream_next(translate_live, translate_stream) # "Pending"
    /\ \E r \in {Translate_take(translate_stream, translate_passed,
                                EventStream_next(translate_live, translate_stream))} :
        /\ translate_stream' = r.stream
        /\ translate_passed' = r.passed
        /\ translate_pc' = unwrap_err(r.pc)
    /\ UNCHANGED <<translate_live, translate_sent, buttonVars,
                   chanVars, recvVars, boxVars, solverVars, guiVars, slotVars,
                   pipeVars, relayoutVars, rootVars>>

\* the destination's translate_window_event returns
TranslateReturn ==
    /\ translate_pc = "handling"
    /\ \E res \in {"Some", "None", "Err"} :
        \E r \in {Translate_return(translate_stream, translate_passed, res)} :
            /\ translate_stream' = r.stream
            /\ translate_passed' = r.passed
            /\ translate_pc' = unwrap_err(r.pc)
    /\ UNCHANGED <<translate_live, translate_sent, buttonVars,
                   chanVars, recvVars, boxVars, solverVars, guiVars, slotVars,
                   pipeVars, relayoutVars, rootVars>>

TranslateNext == TranslateSend \/ TranslateDestroy \/ TranslateTake \/ TranslateReturn
SpecTranslate == TranslateInit /\ [][TranslateNext]_vars

\* -------------------------------------------------- specification: the Root
\* Root::new has returned: the RootImpl holds a Sender, the task is spawned
RootInit ==
    /\ root_live = TRUE
    /\ root_panel = RootImpl_new.panel /\ root_children = RootImpl_new.children
    /\ root_size = V(12, 6)
    /\ root_op = [panel |-> 0, result |-> "none"]
    /\ root_calls = 0 /\ root_dispatched = <<>> /\ root_pc = "running"
    /\ ChanInit
    /\ BoxIdle /\ SolverIdle /\ GuiIdle /\ SlotIdle /\ PipeIdle /\ RelayoutIdle
    /\ ButtonIdle /\ ReceiverIdle /\ TranslateIdle

RootSetPanel ==
    /\ root_live /\ root_calls < MaxRootCalls
    /\ \E panel \in RootPanels, fail \in RootFailures :
        \E r \in {RootImpl_set_panel(root_panel, root_children, panel, fail)} :
            /\ root_panel' = r.panel
            /\ root_children' = r.children
            /\ root_op' = [panel |-> panel, result |-> r.result]
    /\ root_calls' = root_calls + 1
    /\ UNCHANGED <<root_live, root_size, root_dispatched, root_pc, chanVars,
                   buttonVars, recvVars, translateVars, boxVars, solverVars,
                   guiVars, slotVars, pipeVars, relayoutVars>>

\* a holder of a Sender of the Root's channel sends a window event
RootSend ==
    /\ chan_open /\ Len(chan_sent) < MaxRootEvents
    /\ \E event \in RootEvents :
        /\ chan_queue' = Append(chan_queue, event)
        /\ chan_sent' = Append(chan_sent, event)
    /\ UNCHANGED <<chan_open, rootVars, buttonVars, recvVars, translateVars,
                   boxVars, solverVars, guiVars, slotVars, pipeVars, relayoutVars>>

\* the owning handle of the Root is dropped, and with the RootImpl its Sender:
\* the channel stays open only when a clone of the Sender is held elsewhere
RootDrop ==
    /\ root_live
    /\ root_live' = FALSE
    /\ \E cloned \in BOOLEAN : chan_open' = cloned
    /\ UNCHANGED <<root_panel, root_children, root_size, root_op, root_calls,
                   root_dispatched, root_pc, chan_queue, chan_sent,
                   buttonVars, recvVars, translateVars, boxVars, solverVars,
                   guiVars, slotVars, pipeVars, relayoutVars>>

\* the last clone of the Sender is dropped after the Root
RootChannelClose ==
    /\ ~root_live /\ chan_open
    /\ chan_open' = FALSE
    /\ UNCHANGED <<rootVars, chan_queue, chan_sent,
                   buttonVars, recvVars, translateVars, boxVars, solverVars,
                   guiVars, slotVars, pipeVars, relayoutVars>>

\* the task's "rx_event_channel.next().await" returns
RootTake ==
    /\ root_pc = "running"
    /\ Receiver_next(chan_open, chan_queue) # "Pending"
    /\ \E fail \in BOOLEAN :
        \E r \in {Root_receive(root_live, root_panel, root_size, root_dispatched,
                               Receiver_next(chan_open, chan_queue), fail)} :
            /\ root_size' = r.size
            /\ root_dispatched' = r.dispatched
            /\ root_pc' = async_handle_err(r.pc)
    /\ chan_queue' = [k \in 1..(Len(chan_queue) - 1) |-> chan_queue[k + 1]]
    /\ UNCHANGED <<root_live, root_panel, root_children, root_op, root_calls,
                   chan_open, chan_sent,
                   buttonVars, recvVars, translateVars, boxVars, solverVars,
                   guiVars, slotVars, pipeVars, relayoutVars>>

\* the panel's on_panel_event returns
RootReturn ==
    /\ root_pc = "calling"
    /\ \E res \in {"Ok", "Err"} :
        root_pc' = IF res = "Ok" THEN "running" ELSE async_handle_err(res)
    /\ UNCHANGED <<root_live, root_panel, root_children, root_size, root_op,
                   root_calls, root_dispatched, chanVars,
                   buttonVars, recvVars, translateVars, boxVars, solverVars,
                   guiVars, slotVars, pipeVars, relayoutVars>>

RootTaskStep == RootTake \/ RootReturn
RootNext ==
    \/ RootSetPanel \/ RootSend \/ RootDrop \/ RootChannelClose
    \/ RootTake \/ RootReturn
\* the pool runs a task whose await has returned, and a panel's handler returns
SpecRoot == RootInit /\ [][RootNext]_vars /\ WF_vars(RootTaskStep)

\* ------------------------------------------------------------------ claims
\* what the trace of the last call says
ChildCalls == {k \in 1..Len(trace) : trace[k].to = "child"}
CallsTo(i) == {k \in ChildCalls : trace[k].index = i}
StreamSends == {k \in 1..Len(trace) : trace[k].to = "stream"}
Handled(kind, type) ==
    /\ container = kind /\ op = "on_event" /\ status = "Ok"
    /\ Unwrap(last_event).type = type
TheEvent == Unwrap(last_event)

\* p lies in the cell's box, both ends included, in the Ribbon's coordinates
CellContains(cell, p) ==
    /\ FLe(cell.offset.X, p.X) /\ FLe(p.X, FAdd(cell.offset.X, cell.size.X))
    /\ FLe(cell.offset.Y, p.Y) /\ FLe(p.Y, FAdd(cell.offset.Y, cell.size.Y))
CellsUnder(p) == {i \in 1..Len(cells) : CellContains(cells[i], p)}

C2_ResizedCarriesCellSize ==
    Handled("Ribbon", "Resized") =>
        /\ ribbon_size = TheEvent.size
        /\ cells = resize_cells(cells, orientation, TheEvent.size)
        /\ Cardinality(ChildCalls) = Len(cells)
        /\ \A i \in 1..Len(cells) :
            /\ Cardinality(CallsTo(i)) = 1
            /\ \A k \in CallsTo(i) :
                /\ trace[k].panel = cells[i].panel
                /\ trace[k].event = Resized(cells[i].size)

C2_Witness ==
    /\ Handled("Ribbon", "Resized")
    /\ Len(cells) >= 2
    /\ \A i \in 1..Len(cells) : cells[i].size # TheEvent.size
    /\ \E i, j \in 1..Len(cells) : cells[i].size # cells[j].size

\* C3 (as stated): a LayerStack forwards a MouseInput to exactly one layer, the
\* most recently added one, and to none when it has no layer.
C3_TopmostLayerOnly ==
    Handled("LayerStack", "MouseInput") =>
        /\ layers = <<>> => ChildCalls = {}
        /\ layers # <<>> =>
               /\ Cardinality(ChildCalls) = 1
               /\ \A k \in ChildCalls : trace[k].panel = layers[Len(layers)]

\* C4: a Ribbon handling CursorMoved(p) records p and calls every cell's panel
\* exactly once with CursorMoved carrying p minus the cell's offset; only a
\* CursorMoved changes the recorded position, and a MouseInput is hit-tested
\* against the position recorded before it.
C4_CursorMovedState ==
    Handled("Ribbon", "CursorMoved") =>
        /\ mouse_pos = Some(TheEvent.pos)
        /\ Cardinality(ChildCalls) = Len(cells)
        /\ \A i \in 1..Len(cells) :
            /\ Cardinality(CallsTo(i)) = 1
            /\ \A k \in CallsTo(i) :
                /\ trace[k].panel = cells[i].panel
                /\ trace[k].event =
                       CursorMoved(Vector2(FSub(TheEvent.pos.X, cells[i].offset.X),
                                           FSub(TheEvent.pos.Y, cells[i].offset.Y)))

C4_CursorMovedStep ==
    /\ mouse_pos' # mouse_pos =>
            /\ op' = "on_event"
            /\ Unwrap(last_event').type = "CursorMoved"
            /\ mouse_pos' = Some(Unwrap(last_event').pos)
    /\ (container = "Ribbon" /\ op' = "on_event"
            /\ Unwrap(last_event').type = "CursorMoved") =>
            mouse_pos' = Some(Unwrap(last_event').pos)
    /\ (container = "Ribbon" /\ op' = "on_event" /\ IsSome(mouse_pos)
            /\ Unwrap(last_event').type = "MouseInput") =>
            \A k \in 1..Len(trace') :
                trace'[k].to = "child" =>
                    trace'[k].event.in_slot =
                        CellContains(cells[trace'[k].index], Unwrap(mouse_pos))

C4_CursorMovedRecorded == []C4_CursorMovedState /\ [][C4_CursorMovedStep]_vars

C4_Witness ==
    /\ Handled("Ribbon", "MouseInput") /\ IsSome(mouse_pos)
    /\ Unwrap(mouse_pos) # V(0, 0)
    /\ \E k \in ChildCalls :
            /\ trace[k].event.in_slot
            /\ cells[trace[k].index].offset # V(0, 0)

\* C5: a container whose on_event returns Ok has sent the unmodified event
\* exactly once on its own stream, after every call on a child.
C5_EmittedOnceAfterRouting ==
    (container \in {"Ribbon", "LayerStack"} /\ op = "on_event" /\ status = "Ok") =>
        /\ Cardinality(StreamSends) = 1
        /\ \A k \in StreamSends :
            /\ trace[k].event = TheEvent
            /\ \A c \in ChildCalls : c < k

C5_Witness ==
    /\ container = "Ribbon" /\ op = "on_event" /\ status = "Ok"
    /\ TheEvent.type = "Resized"
    /\ Cardinality(ChildCalls) >= 2
    /\ Cardinality(StreamSends) = 1

\* the children of the container under test, in order
Children ==
    IF container = "Ribbon" THEN [i \in 1..Len(cells) |-> cells[i].panel] ELSE layers

\* C6: an event that is neither Resized, MouseInput nor CursorMoved is
\* delivered unchanged to every child of a Ribbon or LayerStack exactly once.
C6_OtherEventsBroadcast ==
    (container \in {"Ribbon", "LayerStack"} /\ op = "on_event" /\ status = "Ok"
        /\ TheEvent.type \notin {"Resized", "MouseInput", "CursorMoved"}) =>
        /\ Cardinality(ChildCalls) = Len(Children)
        /\ \A i \in 1..Len(Children) :
            /\ Cardinality(CallsTo(i)) = 1
            /\ \A k \in CallsTo(i) :
                trace[k].panel = Children[i] /\ trace[k].event = TheEvent

C6_Witness ==
    /\ Handled("LayerStack", "Empty")
    /\ Len(layers) >= 2
    /\ Cardinality(ChildCalls) = Len(layers)

\* C7: a LayerStack handling Resized(s) takes s as its own size and calls every
\* layer exactly once, in insertion order, with Resized(s).
C7_LayerStackResized ==
    Handled("LayerStack", "Resized") =>
        /\ stack_size = TheEvent.size
        /\ Len(trace) = Len(layers) + 1
        /\ \A i \in 1..Len(layers) :
            trace[i] = ChildEntry(i, layers[i], Resized(TheEvent.size))

C7_Witness ==
    /\ Handled("LayerStack", "Resized")
    /\ Len(layers) >= 2
    /\ stack_size # V(0, 0)

\* C8 (as stated): is_point_in_box is true exactly when the point lies between
\* offset and offset + size on both axes, both ends included.
C8_InclusiveOnBothAxes ==
    IsSome(in_box) =>
        Unwrap(in_box) =
            (/\ FLe(offset.X, point.X) /\ FLe(point.X, FAdd(offset.X, size.X))
             /\ FLe(offset.Y, point.Y) /\ FLe(point.Y, FAdd(offset.Y, size.Y)))

\* what adjust_cells was given and returned
NLimits == Len(limits)
SumMin == FSum([i \in 1..NLimits |-> limits[i].min_size])
NoMax == \A i \in 1..NLimits : limits[i].max_size = None
MinLeMax ==
    \A i \in 1..NLimits :
        IsSome(limits[i].max_size) =>
            FLe(limits[i].min_size, Unwrap(limits[i].max_size))
InRange(i) ==
    /\ FLe(limits[i].min_size, result[i])
    /\ IsSome(limits[i].max_size) => FLe(result[i], Unwrap(limits[i].max_size))
Returned == pc = "done"

\* C9 (as stated): with sum(min_size) <= T the sizes sum to exactly T and each
\* lies between its cell's min_size and max_size.
C9_SumAndRange ==
    Returned /\ FLe(SumMin, extent) =>
        /\ FSum(result) = extent
        /\ \A i \in 1..NLimits : InRange(i)

\* C9 (amended): with sum(min_size) <= T and no max_size below its min_size,
\* each size lies between its cell's min_size and max_size, and the sizes of a
\* non-empty list in which no cell has a max_size sum to exactly T.
C9_RangeAndSumWithoutMax ==
    Returned /\ FLe(SumMin, extent) /\ MinLeMax =>
        /\ \A i \in 1..NLimits : InRange(i)
        /\ NoMax /\ NLimits > 0 => FSum(result) = extent

C9_Witness ==
    /\ Returned /\ FLe(SumMin, extent) /\ NoMax
    /\ NLimits >= 2 /\ passes >= 2
    /\ \E i \in 1..NLimits :
            FLt(F(0), limits[i].min_size) /\ result[i] = limits[i].min_size
    /\ \E i \in 1..NLimits : FLt(limits[i].min_size, result[i])

\* C10 (as stated): with sum(min_size) > T every cell is sized at exactly its
\* min_size.
C10_AllAtMin ==
    Returned /\ FLt(extent, SumMin) =>
        \A i \in 1..NLimits : result[i] = limits[i].min_size

\* C10 (amended): with sum(min_size) > T and no max_size below its min_size,
\* every cell that has no max_size is sized at exactly its min_size, and every
\* cell that has a max_size is sized at its min_size or at its max_size.
C10_AtMinOrMax ==
    Returned /\ FLt(extent, SumMin) /\ MinLeMax =>
        \A i \in 1..NLimits :
            \/ result[i] = limits[i].min_size
            \/ IsSome(limits[i].max_size) /\ result[i] = Unwrap(limits[i].max_size)

C10_Witness ==
    /\ Returned /\ FLt(extent, SumMin) /\ MinLeMax /\ FLt(F(0), extent)
    /\ passes >= 2
    /\ \E i \in 1..NLimits :
            /\ limits[i].max_size = None
            /\ limits[i].min_size = F(0) /\ result[i] = F(0)
    /\ \E i \in 1..NLimits :
            /\ IsSome(limits[i].max_size)
            /\ result[i] = Unwrap(limits[i].max_size)
            /\ result[i] # limits[i].min_size

\* the permutations of 1..n
Perms(n) == {p \in [1..n -> 1..n] : \A i, j \in 1..n : p[i] = p[j] => i = j}

\* C11 (as stated): permuting the limits given to adjust_cells permutes the
\* returned sizes in the same way.
C11_OrderIndependent ==
    Returned =>
        \A p \in Perms(NLimits) :
            adjust_cells([i \in 1..NLimits |-> limits[p[i]]], extent)
                = [i \in 1..NLimits |-> result[p[i]]]

Unconstrained ==
    \A i \in 1..NLimits : limits[i].min_size = F(0) /\ limits[i].max_size = None
SumRatio == FSum([i \in 1..NLimits |-> limits[i].ratio])
Proportional ==
    \A i \in 1..NLimits :
        result[i] = FDiv(FMul(extent, limits[i].ratio), SumRatio)

\* C12 (as stated): with min_size 0 and no max_size on every cell and T > 0,
\* each size is T * ratio / sum(ratio) and the sizes sum to T.
C12_ProportionalAndSum ==
    Returned /\ Unconstrained /\ FLt(F(0), extent) =>
        Proportional /\ FSum(result) = extent

\* C12 (amended): with min_size 0 and no max_size on every cell and T > 0, each
\* size is T * ratio / sum(ratio), and the sizes of a non-empty list sum to T.
C12_ProportionalNonEmpty ==
    Returned /\ Unconstrained /\ FLt(F(0), extent) =>
        /\ Proportional
        /\ NLimits > 0 => FSum(result) = extent

C12_Witness ==
    /\ Returned /\ Unconstrained /\ FLt(F(0), extent)
    /\ NLimits >= 2 /\ passes = 1
    /\ \E i, j \in 1..NLimits :
            limits[i].ratio # limits[j].ratio /\ result[i] # result[j]

\* C13 (as stated): with sum(min_size) <= T adjust_cells returns one size per
\* limit and the sizes sum to at most T.
C13_SumAtMostTarget ==
    Returned /\ FLe(SumMin, extent) =>
        /\ DOMAIN result = 1..NLimits
        /\ FLe(FSum(result), extent)

\* C14: three cells of ratio 1, min_size 0 and no max_size in 300 get 100
\* each; with a fourth cell of min_size 250 the fourth gets 250 and the others
\* 50/3 each.
C14_Example ==
    /\ (Returned /\ limits = <<Plain, Plain, Plain>> /\ extent = F(300)) =>
            result = <<F(100), F(100), F(100)>>
    /\ (Returned /\ limits = <<Plain, Plain, Plain, Wide>> /\ extent = F(300)) =>
            result = <<Frac(50, 3), Frac(50, 3), Frac(50, 3), F(250)>>

C14_Witness ==
    /\ Returned /\ limits = <<Plain, Plain, Plain, Wide>> /\ extent = F(300)
    /\ passes = 2
    /\ result[4] = F(250) /\ result[1] = Frac(50, 3)

\* C15: in a Ribbon of orientation Stack every cell has size S * content_ratio
\* (component-wise) and offset (S - S * content_ratio) / 2, S being the
\* container's size, whatever the other cells and the cell's ratio, min_size
\* and max_size are.
C15_StackCentered ==
    (container = "Ribbon" /\ orientation = "Stack") =>
        \A i \in 1..Len(cells) :
            LET content == VMul(ribbon_size, cells[i].limit.content_ratio)
            IN  /\ cells[i].size = content
                /\ cells[i].offset =
                       Vector2(FDiv(FSub(ribbon_size.X, content.X), F(2)),
                               FDiv(FSub(ribbon_size.Y, content.Y), F(2)))

C15_Witness ==
    /\ container = "Ribbon" /\ orientation = "Stack"
    /\ op = "add_panel" /\ Len(cells) >= 2
    /\ ribbon_size # V(0, 0)
    /\ \E i, j \in 1..Len(cells) :
            /\ cells[i].offset # V(0, 0) /\ cells[i].size # ribbon_size
            /\ cells[j].offset = V(0, 0) /\ cells[j].size = ribbon_size

\* the component of v along, and across, the Ribbon's main axis
Main(v) == IF orientation = "Horizontal" THEN v.X ELSE v.Y
Cross(v) == IF orientation = "Horizontal" THEN v.Y ELSE v.X

\* C16: in a Horizontal or Vertical Ribbon the first cell starts at 0 on the
\* main axis, every later cell starts where the previous one ends, and every
\* cell starts at 0 on the secondary axis and spans the container's full
\* secondary extent.
C16_Contiguous ==
    (container = "Ribbon" /\ orientation \in {"Horizontal", "Vertical"}) =>
        \A i \in 1..Len(cells) :
            /\ Main(cells[i].offset) =
                   IF i = 1 THEN F(0)
                   ELSE FAdd(Main(cells[i - 1].offset), Main(cells[i - 1].size))
            /\ Cross(cells[i].offset) = F(0)
            /\ Cross(cells[i].size) = Cross(ribbon_size)

C16_Witness ==
    /\ container = "Ribbon" /\ orientation = "Vertical"
    /\ Handled("Ribbon", "Resized") /\ Len(cells) >= 2
    /\ Main(cells[2].offset) # F(0) /\ Main(cells[2].size) # F(0)
    /\ Cross(cells[2].size) # F(0)

\* C17: add_panel leaves the container's size alone, keeps the old cells in
\* order, appends one cell for the new panel as the last cell, and leaves all
\* cells laid out for the container's size.
C17_AddPanelStep ==
    (container = "Ribbon" /\ op' = "add_panel" /\ vars' # vars) =>
        /\ ribbon_size' = ribbon_size
        /\ Len(cells') = Len(cells) + 1
        /\ \A i \in 1..Len(cells) :
                cells'[i].panel = cells[i].panel /\ cells'[i].limit = cells[i].limit
        /\ \A i \in 1..Len(cells) : cells'[Len(cells')].panel # cells[i].panel
        /\ cells' = resize_cells(cells', orientation, ribbon_size)

C17_AddPanelRelayout == [][C17_AddPanelStep]_vars

C17_Witness ==
    /\ container = "Ribbon" /\ orientation = "Horizontal"
    /\ op = "add_panel" /\ Len(cells) = 2
    /\ ribbon_size # V(0, 0)
    /\ cells[1].size.X # ribbon_size.X /\ cells[2].size.X # F(0)
    /\ cells[2].offset.X # F(0)

\* C18 (as stated): a stream created by event_stream() on a Ribbon that already
\* has a size is at once sent Resized carrying the Ribbon's size.
C18_ResendOnSubscribe ==
    (container = "Ribbon" /\ op = "event_stream" /\ ribbon_size # V(0, 0)) =>
        trace = <<StreamEntry(Resized(ribbon_size))>>

\* how often v occurs among the children of the slot's container
Occurrences(v) ==
    Cardinality({k \in 1..Len(slot_container.Children) : slot_container.Children[k] = v})

\* C19: after Slot::plug(visual) on a live slot (its backend calls succeeding)
\* the visual has the size of the slot's container, is the topmost child of
\* that container, and the Plug returned is a new one that holds the visual.
C19_PlugInsertsAtTop ==
    (slot_op.name = "plug" /\ slot_op.inner = "Ok") =>
        LET v == slot_op.visual
            children == slot_container.Children
        IN  /\ visual_size[v] = slot_container.Size
            /\ Len(children) > 0 /\ children[Len(children)] = v
            /\ Occurrences(v) = 1
            /\ slot_op.plug = Len(plugs)
            /\ plugs[slot_op.plug] = SlotPlug(v)

C19_Witness ==
    /\ slot_op.name = "plug" /\ slot_op.inner = "Ok" /\ slot_live
    /\ Len(slot_container.Children) >= 2
    /\ slot_container.Children[Len(slot_container.Children)] = slot_op.visual
    /\ visual_size[slot_op.visual] # V(0, 0)

\* C20: dropping a Plug of a live slot removes its visual from the children of
\* the slot's container and leaves every other child, and every visual's
\* size, as it was; a Plug is dropped once and removes at most once.
C20_DropStep ==
    (slot_op'.name = "drop" /\ vars' # vars) =>
        LET p == slot_op'.plug
            v == plugs[p].plugged_visual
        IN  /\ ~plugs[p].dropped /\ plugs'[p].dropped
            /\ slot_op'.visual = v
            /\ slot_live =>
                /\ \A k \in 1..Len(slot_container'.Children) :
                        slot_container'.Children[k] # v
                /\ slot_container'.Children =
                       SelectSeq(slot_container.Children, LAMBDA c : c # v)
                /\ plugs'[p].removes = 1
            /\ slot_container'.Size = slot_container.Size
            /\ visual_size' = visual_size
            /\ \A q \in 1..Len(plugs) : q # p => plugs'[q] = plugs[q]

C20_RemovesAtMostOnce == \A p \in 1..Len(plugs) : plugs[p].removes <= 1

C20_PlugDropPaired == [][C20_DropStep]_vars /\ []C20_RemovesAtMostOnce

C20_Witness ==
    /\ slot_op.name = "drop" /\ slot_op.inner = "Ok" /\ slot_live
    /\ Occurrences(slot_op.visual) = 0
    /\ Len(slot_container.Children) = 1
    /\ plugs[slot_op.plug].removes = 1
    /\ \E q \in 1..Len(plugs) :
            ~plugs[q].dropped /\ plugs[q].plugged_visual # slot_op.visual

\* the sizes of the cells locked so far
LockedSum == FSum([i \in 1..NLimits |-> IF lock[i] THEN result[i] ELSE F(0)])

\* C30: no size set by adjust_cells is negative, and the target of every pass
\* is at least 0: a negative remainder is replaced by 0.
C30_NothingNegative ==
    /\ \A i \in 1..NLimits : FLe(F(0), result[i])
    /\ FLe(F(0), target)

C30_Witness ==
    /\ pc = "loop" /\ passes >= 1
    /\ FLt(extent, LockedSum)
    /\ target = F(0)
    /\ \E i \in 1..NLimits : ~lock[i]

\* C21: dropping a Plug once the owner of its slot is gone changes no
\* container and no visual, removes nothing and does not fail.
C21_DropStep ==
    (slot_op'.name = "drop" /\ ~slot_live /\ vars' # vars) =>
        /\ slot_container' = slot_container
        /\ visual_size' = visual_size
        /\ plugs'[slot_op'.plug].dropped
        /\ plugs'[slot_op'.plug].removes = 0
        /\ slot_op'.inner = "None"

C21_DropAfterDestroy == [][C21_DropStep]_vars

C21_Witness ==
    /\ slot_op.name = "drop" /\ ~slot_live
    /\ Occurrences(slot_op.visual) = 1
    /\ plugs[slot_op.plug].dropped

\* the operations of a Slot that C23 names
SkippedOps == {"resize_sync", "send_window_event_sync", "resend_slot_resized", "plug", "name"}

\* C23: every one of these operations called on a slot whose owner is gone
\* returns normally (no Err, no panic), sends no event and leaves the slot's
\* container and every visual as they were
C23_DeadStep ==
    (~slot_live /\ slot_op'.name \in SkippedOps) =>
        /\ slot_result' = "Ok"
        /\ slot_sent' = <<>>
        /\ slot_container' = slot_container
        /\ visual_size' = visual_size
C23_SilentlySkipped == [][C23_DeadStep]_vars

\* C29: the stream that Slot::on_slot_resized returns on a live slot (the
\* backend giving the container's Size) has been sent one SlotResized with the
\* size the slot's container has, by the call itself; on a slot whose owner is
\* gone the call sends nothing
C29_ResendOnSubscribe ==
    slot_op.name = "on_slot_resized" =>
        LET new == Len(slot_streams)
            got == SelectSeq(slot_sent, LAMBDA d : d.stream = new)
        IN  /\ new >= 1 /\ slot_streams[new] = "SlotResized"
            /\ (slot_live /\ slot_op.inner # "Err") =>
                    got = <<Delivery(new, SlotResized(slot_container.Size))>>
            /\ ~slot_live => slot_sent = <<>>

C29_Witness ==
    /\ slot_op.name = "on_slot_resized" /\ slot_live /\ slot_op.inner = "Some"
    /\ Len(slot_streams) = 2 /\ slot_streams[1] = "WindowEvent"
    /\ slot_container.Size = Vector2(<<13, 2>>, F(4))
    /\ slot_sent = <<Delivery(2, SlotResized(slot_container.Size))>>

\* C22: once the owner of the slot is gone every read or mutation through the
\* handle gives None and nothing more is put into any stream, and the task in
\* Slot::wait_for_destroy, whose stream has ended, finishes
C22_ReadsGiveNone ==
    (~slot_live /\ slot_op.name # "destroy") =>
        /\ slot_op.inner = IF slot_op.name = "name" THEN "(dropped)/" ELSE "None"
        /\ slot_sent = <<>>
C22_WeakHandleLifecycle ==
    /\ []C22_ReadsGiveNone
    /\ [](wait_pc = "finished" => ~slot_live)
    /\ (~slot_live /\ wait_pc = "awaiting") ~> (wait_pc = "finished")

C22_Witness ==
    /\ ~slot_live /\ wait_pc = "finished"
    /\ slot_op.name = "resend_slot_resized" /\ slot_op.inner = "None"
    /\ Len(slot_streams) = 2

\* C25: remove_panel of a panel that is not among the layers returns Ok and
\* leaves the layers and the children of the container as they are;
\* remove_panel of a panel that is among them (the backend not failing) takes
\* that layer out of the layers and its visual out of the children, the others
\* keeping their order
C25_RemoveStep ==
    (container = "LayerStack" /\ op' = "remove_panel") =>
        LET p == op_panel'
            present == \E i \in 1..Len(layers) : layers[i] = p
        IN  /\ ~present =>
                /\ status' = "Ok"
                /\ layers' = layers /\ stack_children' = stack_children
            /\ (present /\ status' = "Ok") =>
                /\ layers' = SelectSeq(layers, LAMBDA q : q # p)
                /\ Len(layers') = Len(layers) - 1
                /\ stack_children' = SelectSeq(stack_children, LAMBDA q : q # p)
            /\ stack_size' = stack_size
C26_ErrorPropagates ==
    op = "on_event" =>
        /\ status = "Err" =>
            /\ \A k \in 1..Len(trace) : trace[k].to = "child" /\ trace[k].index = k
            /\ fault.kind = "child" => fault.at >= 1 /\ Len(trace) = fault.at
            /\ fault.kind = "backend" =>
                    Len(trace) = IF fault.at = 0 THEN 0 ELSE fault.at - 1
        /\ (\E k \in 1..Len(trace) :
                /\ trace[k].to = "child"
                /\ fault.kind = "child" /\ trace[k].index = fault.at) => status = "Err"
        /\ (Unwrap(last_event).type = "Resized" /\ HeadFails(fault)) => status = "Err"
        /\ (container = "Ribbon"
                /\ Unwrap(last_event).type \in {"Resized", "CursorMoved"}
                /\ ReadFails(Len(cells), fault)) => status = "Err"

C26_Witness ==
    /\ container = "Ribbon" /\ op = "on_event" /\ status = "Err"
    /\ Unwrap(last_event).type = "CursorMoved"
    /\ Len(cells) = 2 /\ fault = Fault("backend", 2)
    /\ Len(trace) = 1 /\ trace[1].to = "child"

\* whether s is the beginning of t
IsPrefix(s, t) == Len(s) <= Len(t) /\ \A k \in 1..Len(s) : s[k] = t[k]

C27_InOrder ==
    /\ IsPrefix(pipe_handled, pipe_sent)
    /\ Len(pipe_handled) + Len(pipe_source) = Len(pipe_sent)
    /\ pipe_pc = "Ok" => ~pipe_open /\ pipe_handled = pipe_sent
    /\ pipe_pc \in {"running", "Ok", "Panic"}
    /\ pipe_pc = "Panic" => pipe_handled # <<>>
C28_SingleLayout ==
    (/\ container = "Ribbon"
     /\ resize_pc \in {"idle", "done"} /\ add_pc \in {"idle", "done"}
     /\ resize_pc = "done" \/ add_pc = "done") =>
        /\ cells = resize_cells(cells, orientation, ribbon_size)
        /\ resize_pc = "done" => ribbon_size = resize_size

\* what one recipient (a child, or the subscribers of the container's own
\* stream) has observed, in the order it observed it
ObservedBy(to, panel) ==
    SelectSeq(received, LAMBDA d : d.to = to /\ d.panel = panel)

LockedCells == {i \in 1..NLimits : lock[i]}

\* C31: adjust_cells ends after at most n + 1 passes over its n limits: a pass
\* that does not end the loop locks a cell that was not locked before, and a
\* locked cell is never unlocked nor given another size.
C31_PassStep ==
    (passes' = passes + 1) =>
        /\ pc' = "loop" => \E i \in 1..NLimits : ~lock[i] /\ lock'[i]
        /\ \A i \in 1..NLimits :
                lock[i] => lock'[i] /\ result'[i] = result[i]

C31_Terminates ==
    /\ [](passes <= NLimits + 1)
    /\ [](pc = "loop" => passes <= NLimits)
    /\ [][C31_PassStep]_vars

C31_Witness ==
    /\ pc = "done" /\ passes = NLimits /\ NLimits >= 2
    /\ LockedCells # {} /\ LockedCells # 1..NLimits

\* C32: a Ribbon that has recorded no mouse position forwards a MouseInput to
\* no child, its on_event returns Ok whatever its children would have answered,
\* and it sends the MouseInput once on its own stream.
C32_NoPositionNoForward ==
    (container = "Ribbon" /\ op = "on_event" /\ TheEvent.type = "MouseInput"
        /\ mouse_pos = None) =>
        /\ ChildCalls = {}
        /\ status = "Ok"
        /\ trace = <<StreamEntry(TheEvent)>>

C32_Witness ==
    /\ container = "Ribbon" /\ op = "on_event" /\ TheEvent.type = "MouseInput"
    /\ mouse_pos = None
    /\ Len(cells) >= 2 /\ ribbon_size # V(0, 0)
    /\ fault.at >= 1
    /\ trace = <<StreamEntry(TheEvent)>>

\* C33 (as stated): when add_panel has returned on a Ribbon whose size is not
\* zero, the new panel has been called with Resized carrying the size of its
\* cell after the layout.
C33_AddPanelNotifies ==
    (container = "Ribbon" /\ op = "add_panel" /\ status = "Ok"
        /\ ribbon_size # V(0, 0)) =>
        \E k \in ChildCalls :
            /\ trace[k].index = Len(cells)
            /\ trace[k].event = Resized(cells[Len(cells)].size)

\* C40 (as stated): when Slot::plug has returned Ok with a Plug, the closure
\* run on the SlotImpl has succeeded and the visual is a child of the slot's
\* container: a destroyed owner or a failing backend call is reported.
C40_PlugOnlyWhenInserted ==
    (slot_op.name = "plug" /\ slot_result = "Ok") =>
        /\ slot_op.inner = "Ok"
        /\ Occurrences(slot_op.visual) >= 1

\* the ButtonEvents sent by the last on_event call on the Button
ButtonEventsOf(tr) == SelectSeq(tr, LAMBDA d : d.to = "button_events")
PanelEventsOf(tr) == SelectSeq(tr, LAMBDA d : d.to = "panel_events")

\* C34: in the ButtonEvents a Button sends while PanelEvents are delivered to
\* it one at a time, every Release comes after a Press with no other Release
\* between the two; a call sends Release only when the flag was set, and a
\* call that handles a Left Released input leaves the flag cleared.
C34_Paired ==
    \A j \in 1..Len(button_sent) :
        button_sent[j].type = "Release" =>
            \E i \in 1..(j - 1) :
                /\ button_sent[i] = Press
                /\ \A k \in (i + 1)..(j - 1) : button_sent[k].type # "Release"

C34_Step ==
    (button_calls' = button_calls + 1) =>
        /\ (\E k \in 1..Len(button_trace') :
                button_trace'[k].to = "button_events"
                    /\ button_trace'[k].event.type = "Release") => pressed
        /\ (button_status' = "Ok" /\ Unwrap(button_event').type = "MouseInput"
                /\ Unwrap(button_event').button = "Left"
                /\ Unwrap(button_event').state = "Released") => ~pressed'

C34_ReleaseAfterPress == []C34_Paired /\ [][C34_Step]_vars

C34_Witness ==
    /\ button_calls = 3
    /\ button_sent = <<Press, Press, Release(FALSE)>>
    /\ ~pressed

\* C35: a call on the Button sends Press and sets the flag only for a
\* MouseInput with the Left button, Pressed, in_slot true; for every other
\* PanelEvent but a Left Released input it sends no ButtonEvent and leaves the
\* flag as it was; and every call that returns Ok has sent the PanelEvent on,
\* once, after everything else.
C35_Step ==
    (button_calls' = button_calls + 1) =>
        LET event == Unwrap(button_event')
            isPress == event = MouseInput(TRUE, "Pressed", "Left")
            isRelease == /\ event.type = "MouseInput" /\ event.button = "Left"
                         /\ event.state = "Released"
            sent == ButtonEventsOf(button_trace')
        IN  /\ (\E k \in 1..Len(sent) : sent[k].event = Press) => isPress
            /\ (pressed' /\ ~pressed) => isPress
            /\ (isPress /\ button_status' = "Ok") =>
                    pressed' /\ sent = <<ButtonEntry(Press)>>
            /\ (~isPress /\ ~isRelease) => sent = <<>> /\ pressed' = pressed
            /\ button_status' = "Ok" =>
                    /\ PanelEventsOf(button_trace') = <<PanelEntry(event)>>
                    /\ button_trace'[Len(button_trace')] = PanelEntry(event)

C35_OnlyPressInSlot == [][C35_Step]_vars

C35_Witness ==
    /\ button_calls = 3 /\ button_status = "Ok"
    /\ button_event = Some(MouseInput(FALSE, "Pressed", "Left"))
    /\ button_sent = <<Press, Release(TRUE)>>
    /\ ~pressed
    /\ button_trace = <<SkinEntry(Unwrap(button_event)), PanelEntry(Unwrap(button_event))>>

\* the PanelEvents of the window events sent on the channel, in send order
SentAsPanelEvents == [k \in 1..Len(chan_sent) |-> PanelEvent_from(chan_sent[k])]
HandledEvents == [k \in 1..Len(recv_handled) |-> recv_handled[k].event]

\* C36: the receiver calls the panel with the events sent on the channel, as
\* PanelEvents, in send order and leaving none out, one call at a time: a call
\* is made only when every earlier call has returned Ok; a Resized is given
\* to the panel with the container already at the new size; and every event
\* sent is dispatched in the end unless a dispatch failed.
C36_InOrder ==
    /\ IsPrefix(HandledEvents, SentAsPanelEvents)
    /\ \A k \in 1..Len(recv_handled) :
            recv_handled[k].event.type = "Resized" =>
                recv_handled[k].container = recv_handled[k].event.size
    /\ Len(recv_results) <= Len(recv_handled)
    /\ Len(recv_handled) <= Len(recv_results) + 1
    /\ Len(recv_handled) = Len(recv_results) + 1 <=> recv_pc = "calling"
    /\ \A k \in 1..Len(recv_results) :
            recv_results[k] = "Err" => k = Len(recv_results) /\ recv_pc = "Panic"
    /\ recv_pc # "Panic" =>
            Len(recv_handled) + Len(chan_queue) = Len(chan_sent)

C36_CallStep ==
    Len(recv_handled') # Len(recv_handled) =>
        /\ Len(recv_handled') = Len(recv_handled) + 1
        /\ Len(recv_results) = Len(recv_handled)
        /\ \A k \in 1..Len(recv_results) : recv_results[k] = "Ok"

C36_ReceiverDispatches ==
    /\ []C36_InOrder
    /\ [][C36_CallStep]_vars
    /\ \A k \in 1..MaxEvents :
            (Len(chan_sent) >= k) ~> (Len(recv_handled) >= k \/ recv_pc = "Panic")

C36_Witness ==
    /\ recv_pc = "Ok" /\ Len(recv_handled) = 3
    /\ recv_results = <<"Ok", "Ok", "Ok">>
    /\ recv_handled[1].event.type = "CursorMoved"
    /\ recv_handled[2].event.type = "Resized"
    /\ recv_handled[2].container # recv_handled[1].container
    /\ recv_handled[3].event = Empty

\* C37 (as stated): the task passes every window event sent to the live Slot
\* to translate_window_event, once and in send order, also those sent while
\* an earlier event is being handled: when the task waits with nothing queued,
\* what it has passed is what was sent.
C37_PassesEverySent ==
    /\ IsPrefix(translate_passed, translate_sent)
    /\ (translate_pc = "awaiting" /\ translate_stream = <<>>) =>
            translate_passed = translate_sent

\* C38 (as stated): after any set_panel calls the children of the root visual
\* are the visual of the stored panel and nothing else, also after a call
\* that failed; a call that returned Ok has stored the panel it was given.
C38_PanelAndVisualAgree ==
    /\ Len(root_children) <= 1
    /\ root_children = (IF IsSome(root_panel) THEN <<Unwrap(root_panel)>> ELSE <<>>)
    /\ root_op.result = "Ok" => root_panel = Some(root_op.panel)

\* C39: the Root's receiver task hands an event to the panel only when the
\* owning handle was there as the event was received; and once the handle is
\* dropped the task ends, at the next event it receives or when the channel
\* closes.
C39_DispatchStep ==
    Len(root_dispatched') # Len(root_dispatched) =>
        /\ root_live
        /\ root_dispatched' =
                Append(root_dispatched, RootDispatch(chan_queue[1], Unwrap(root_panel)))

C39_EndStep ==
    (~root_live /\ root_pc = "running" /\ Len(chan_queue') < Len(chan_queue)) =>
        root_pc' = "Ok"

C39_NoDispatchAfterDrop ==
    /\ [][C39_DispatchStep]_vars
    /\ [][C39_EndStep]_vars
    /\ (~root_live /\ (chan_queue # <<>> \/ ~chan_open)) ~> (root_pc \in {"Ok", "Panic"})

C39_Witness ==
    /\ ~root_live /\ root_pc = "Ok" /\ chan_open
    /\ IsSome(root_panel)
    /\ Len(root_dispatched) = 1 /\ Len(chan_sent) = 2
    /\ chan_queue = <<>>

====
